---- MODULE Spec2Model ----
(***************************************************************************)
(* A model of bitcoin-node (github.com/aang114/bitcoin-node): the peer     *)
(* actor (readLoop, msgChLoop, writeLoop, Quit), the node supervisor       *)
(* (selectLoop and its handlers, AddPeer, Quit) and the block snapshot     *)
(* (saveBlocksToDisk, readBlocksFromDisk and the block / tx codec).        *)
(***************************************************************************)
EXTENDS Integers, Sequences, FiniteSets, TLC

(***************************************************************************)
(* Bounds of the model.                                                    *)
(***************************************************************************)
\* what happens to the program in one run: messages the remote ends
\* deliver, connections they close, transport writes that fail, firings of
\* the ticker, a termination signal, and every run of addPeersIfNecessary
\* after the first one
MaxEvents == 2
\* runs of addPeersIfNecessary in one run
MaxAddPeers == 2
\* capacity of a peer's msgCh and writeCh (the source makes them 100 deep)
ChanCap == 1

\* Node.minimumPeers (main's -minPeers flag); also the capacity of
\* invMsgCh and blockMsgCh
minimumPeers == 2

\* Peer objects: peer 1 is the one main adds before Node.Start, the others
\* are created by the dial workers of attemptAddingSomePeers.
PeerIds == {1, 2}
\* TCP addresses; address 1 is main's first peer.
Addrs == {1, 2}

ZeroHash == 0

Min(a, b) == IF a < b THEN a ELSE b

SeqToSet(s) == {s[i] : i \in 1..Len(s)}

(***************************************************************************)
(* Blocks.  A Hash256 is modelled as a natural number (the 32 octets read  *)
(* little-endian); GetBlockHash is an injective function of the six header *)
(* fields and does not read the transactions, like the double SHA-256 of   *)
(* the 80 header octets.                                                   *)
(***************************************************************************)
NVersion == 2
NBits == 2
NMerkle == 2
NTimestamp == 3
NNonce == 2

GetBlockHash(b) ==
    1 + b.Nonce + NNonce * (b.Bits + NBits * (b.Timestamp + NTimestamp *
        (b.MerkleRoot + NMerkle * (b.PrevBlock * NVersion + (b.Version - 1)))))

Blk(prev, ts, nonce, txs) ==
    [Version |-> 1, PrevBlock |-> prev, MerkleRoot |-> 0, Timestamp |-> ts,
     Bits |-> 0, Nonce |-> nonce, Transactions |-> txs]

(***************************************************************************)
(* The codec, on octet sequences.  A stream is a sequence of octets s and  *)
(* a position pos, the number of octets already consumed; a decoder        *)
(* returns [err, val, pos].  Numbers stay below 2^31.                      *)
(***************************************************************************)
RECURSIVE LittleEndian(_, _)
\* binary.Write(buffer, binary.LittleEndian, v) for a v of n octets
LittleEndian(v, n) ==
    IF n = 0 THEN <<>> ELSE <<v % 256>> \o LittleEndian(v \div 256, n - 1)

Failed == [err |-> TRUE, val |-> <<>>, pos |-> 0]
Decoded(v, pos) == [err |-> FALSE, val |-> v, pos |-> pos]

\* io.ReadFull(r, buf) with len(buf) = n
ReadFull(s, pos, n) ==
    IF pos + n <= Len(s)
    THEN Decoded(SubSeq(s, pos + 1, pos + n), pos + n)
    ELSE Failed

RECURSIVE FromLittleEndian(_)
FromLittleEndian(octets) ==
    IF octets = <<>> THEN 0 ELSE Head(octets) + 256 * FromLittleEndian(Tail(octets))

\* binary.Read(r, binary.LittleEndian, &v) for a v of n octets
ReadLittleEndian(s, pos, n) ==
    IF pos + n <= Len(s)
    THEN Decoded(FromLittleEndian(SubSeq(s, pos + 1, pos + n)), pos + n)
    ELSE Failed

\* VarInt.Encode
VarIntEncode(v) ==
    IF v < 253 THEN <<v>>
    ELSE IF v <= 65535 THEN <<253>> \o LittleEndian(v, 2)
    ELSE <<254>> \o LittleEndian(v, 4)

\* DecodeVarInt
DecodeVarInt(s, pos) ==
    IF pos >= Len(s) THEN Failed
    ELSE IF s[pos + 1] = 253 THEN ReadLittleEndian(s, pos + 1, 2)
    ELSE IF s[pos + 1] = 254 THEN ReadLittleEndian(s, pos + 1, 4)
    ELSE IF s[pos + 1] = 255 THEN ReadLittleEndian(s, pos + 1, 8)
    ELSE Decoded(s[pos + 1], pos + 1)

RECURSIVE Concat(_)
Concat(seqs) == IF seqs = <<>> THEN <<>> ELSE Head(seqs) \o Concat(Tail(seqs))

\* OutPoint.Encode
EncodeOutPoint(o) == LittleEndian(o.Hash, 32) \o LittleEndian(o.Index, 4)

\* TxIn.Encode
EncodeTxIn(t) ==
    EncodeOutPoint(t.PreviousOutput) \o VarIntEncode(Len(t.SignatureScript))
        \o t.SignatureScript \o LittleEndian(t.Sequence, 4)

\* TxOut.Encode
EncodeTxOut(t) ==
    LittleEndian(t.Value, 8) \o VarIntEncode(Len(t.PkScript)) \o t.PkScript

\* TxWitness.Encode
EncodeTxWitness(w) ==
    VarIntEncode(Len(w.ComponentDataList))
        \o Concat([i \in 1..Len(w.ComponentDataList) |->
                     VarIntEncode(Len(w.ComponentDataList[i])) \o w.ComponentDataList[i]])

\* TxPayload.Encode
EncodeTx(t) ==
    LittleEndian(t.Version, 4)
        \o (IF Len(t.TransactionWitnesses) > 0 THEN <<0, 1>> ELSE <<>>)
        \o VarIntEncode(Len(t.TransactionInputs))
        \o Concat([i \in 1..Len(t.TransactionInputs) |-> EncodeTxIn(t.TransactionInputs[i])])
        \o VarIntEncode(Len(t.TransactionOutputs))
        \o Concat([i \in 1..Len(t.TransactionOutputs) |-> EncodeTxOut(t.TransactionOutputs[i])])
        \o (IF Len(t.TransactionWitnesses) > 0
            THEN VarIntEncode(Len(t.TransactionWitnesses))
                     \o Concat([i \in 1..Len(t.TransactionWitnesses) |->
                                  EncodeTxWitness(t.TransactionWitnesses[i])])
            ELSE <<>>)
        \o LittleEndian(t.LockTime, 4)

\* BlockPayload.Encode
EncodeBlock(b) ==
    LittleEndian(b.Version, 4) \o LittleEndian(b.PrevBlock, 32)
        \o LittleEndian(b.MerkleRoot, 32) \o LittleEndian(b.Timestamp, 4)
        \o LittleEndian(b.Bits, 4) \o LittleEndian(b.Nonce, 4)
        \o VarIntEncode(Len(b.Transactions))
        \o Concat([i \in 1..Len(b.Transactions) |-> EncodeTx(b.Transactions[i])])

maxScriptSize == 10000

\* a loop "for i := range count { x, err := decode(r); ... }": the item
\* `one` in front of the items `rest` decoded after it
ListCons(one, rest) ==
    IF rest.err THEN Failed ELSE Decoded(<<one.val>> \o rest.val, rest.pos)

\* io.ReadFull of a script whose length was decoded as n
ReadScript(s, n) ==
    IF n.err THEN Failed
    ELSE IF n.val > maxScriptSize THEN Failed
    ELSE ReadFull(s, n.pos, n.val)

\* decodeOutPoint, from its two reads
OutPointOf(hash, index) ==
    IF hash.err \/ index.err THEN Failed
    ELSE Decoded([Hash |-> hash.val, Index |-> index.val], index.pos)

\* decodeOutPoint
DecodeOutPoint(s, pos) ==
    OutPointOf(ReadLittleEndian(s, pos, 32), ReadLittleEndian(s, pos + 32, 4))

\* decodeTxIn, from its three reads
TxInOf(previousOutput, script, sequence) ==
    IF previousOutput.err \/ script.err \/ sequence.err THEN Failed
    ELSE Decoded([PreviousOutput |-> previousOutput.val, SignatureScript |-> script.val,
                  Sequence |-> sequence.val], sequence.pos)

\* decodeTxIn after the script
TxInSequence(s, previousOutput, script) ==
    TxInOf(previousOutput, script, ReadLittleEndian(s, script.pos, 4))

\* decodeTxIn
DecodeTxIn(s, pos) ==
    TxInSequence(s, DecodeOutPoint(s, pos), ReadScript(s, DecodeVarInt(s, pos + 36)))

\* decodeTxOut, from its two reads
TxOutOf(value, script) ==
    IF value.err \/ script.err THEN Failed
    ELSE Decoded([Value |-> value.val, PkScript |-> script.val], script.pos)

\* decodeTxOut
DecodeTxOut(s, pos) ==
    TxOutOf(ReadLittleEndian(s, pos, 8), ReadScript(s, DecodeVarInt(s, pos + 8)))

\* one round of the loop of decodeTxWitness, after the length n
ReadComponent(s, n) == IF n.err THEN Failed ELSE ReadFull(s, n.pos, n.val)

\* one round of the loop of decodeTxWitness
DecodeComponent(s, pos) == ReadComponent(s, DecodeVarInt(s, pos))

RECURSIVE DecodeComponents(_, _)
\* the loop of decodeTxWitness over componentsCount, after one round
DecodeComponentsAfter(s, one, count) ==
    IF one.err THEN Failed
    ELSE ListCons(one, DecodeComponents(s, Decoded(count - 1, one.pos)))

\* "count, err := DecodeVarInt(r)" and the loop of decodeTxWitness over componentsCount
DecodeComponents(s, count) ==
    IF count.err THEN Failed
    ELSE IF count.val = 0 THEN Decoded(<<>>, count.pos)
    ELSE DecodeComponentsAfter(s, DecodeComponent(s, count.pos), count.val)

\* decodeTxWitness, from its list
TxWitnessOf(list) ==
    IF list.err THEN Failed ELSE Decoded([ComponentDataList |-> list.val], list.pos)

\* decodeTxWitness
DecodeTxWitness(s, pos) ==
    TxWitnessOf(DecodeComponents(s, DecodeVarInt(s, pos)))

RECURSIVE DecodeTxIns(_, _)
\* the loop of decodeTxPayload over txInputCount, after one round
DecodeTxInsAfter(s, one, count) ==
    IF one.err THEN Failed
    ELSE ListCons(one, DecodeTxIns(s, Decoded(count - 1, one.pos)))

\* "count, err := DecodeVarInt(r)" and the loop of decodeTxPayload over txInputCount
DecodeTxIns(s, count) ==
    IF count.err THEN Failed
    ELSE IF count.val = 0 THEN Decoded(<<>>, count.pos)
    ELSE DecodeTxInsAfter(s, DecodeTxIn(s, count.pos), count.val)

RECURSIVE DecodeTxOuts(_, _)
\* the loop of decodeTxPayload over txOutputCount, after one round
DecodeTxOutsAfter(s, one, count) ==
    IF one.err THEN Failed
    ELSE ListCons(one, DecodeTxOuts(s, Decoded(count - 1, one.pos)))

\* "count, err := DecodeVarInt(r)" and the loop of decodeTxPayload over txOutputCount
DecodeTxOuts(s, count) ==
    IF count.err THEN Failed
    ELSE IF count.val = 0 THEN Decoded(<<>>, count.pos)
    ELSE DecodeTxOutsAfter(s, DecodeTxOut(s, count.pos), count.val)

RECURSIVE DecodeTxWitnesses(_, _)
\* the loop of decodeTxPayload over txWitnessCount, after one round
DecodeTxWitnessesAfter(s, one, count) ==
    IF one.err THEN Failed
    ELSE ListCons(one, DecodeTxWitnesses(s, Decoded(count - 1, one.pos)))

\* "count, err := DecodeVarInt(r)" and the loop of decodeTxPayload over txWitnessCount
DecodeTxWitnesses(s, count) ==
    IF count.err THEN Failed
    ELSE IF count.val = 0 THEN Decoded(<<>>, count.pos)
    ELSE DecodeTxWitnessesAfter(s, DecodeTxWitness(s, count.pos), count.val)

\* decodeTxPayload, from what it read
TxOf(version, ins, outs, wits, lock) ==
    IF lock.err THEN Failed
    ELSE Decoded([Version |-> version, TransactionInputs |-> ins.val,
                  TransactionOutputs |-> outs.val, TransactionWitnesses |-> wits.val,
                  LockTime |-> lock.val], lock.pos)

\* decodeTxPayload after the witnesses: t.LockTime
TxLockTime(s, version, ins, outs, wits) ==
    IF wits.err THEN Failed
    ELSE TxOf(version, ins, outs, wits, ReadLittleEndian(s, wits.pos, 4))

\* decodeTxPayload after the outputs: the witnesses when the flag was there
TxWitnesses(s, version, flag, ins, outs) ==
    IF outs.err THEN Failed
    ELSE TxLockTime(s, version, ins, outs,
                    IF flag
                    THEN DecodeTxWitnesses(s, DecodeVarInt(s, outs.pos))
                    ELSE Decoded(<<>>, outs.pos))

\* decodeTxPayload after the inputs: the outputs
TxOutputs(s, version, flag, ins) ==
    IF ins.err THEN Failed
    ELSE TxWitnesses(s, version, flag, ins,
                     DecodeTxOuts(s, DecodeVarInt(s, ins.pos)))

\* decodeTxPayload after the flag: the inputs
TxInputs(s, pos, version, flag) ==
    TxOutputs(s, version, flag, DecodeTxIns(s, DecodeVarInt(s, pos)))

\* the fields of decodeTxPayload, read through its bufio.Reader r; pos is
\* the position of r in the stream.  r.Peek(2) fails when fewer than two
\* octets are left; the flag octets 0x00 0x01 are consumed when they are there.
DecodeTxFields(s, pos) ==
    IF pos + 6 > Len(s) THEN Failed
    ELSE IF SubSeq(s, pos + 5, pos + 6) = <<0, 1>>
    THEN TxInputs(s, pos + 6, ReadLittleEndian(s, pos, 4).val, TRUE)
    ELSE TxInputs(s, pos + 4, ReadLittleEndian(s, pos, 4).val, FALSE)

\* the size of the buffer of bufio.NewReader
defaultBufSize == 4096

\* Where a bufio.Reader made at position pos leaves the reader under it
\* after `used` octets (at least one) were taken from it: it fills its buffer
\* with whatever the reader under it has, up to defaultBufSize octets at a
\* time, and the octets it holds and nobody took are lost with it.
BufioLeavesAt(s, pos, used) ==
    Min(Len(s), pos + defaultBufSize * ((used + defaultBufSize - 1) \div defaultBufSize))

\* decodeTxPayload, from the fields and what its bufio.Reader took
TxThroughBufio(s, pos, t) ==
    IF t.err THEN Failed ELSE Decoded(t.val, BufioLeavesAt(s, pos, t.pos - pos))

\* decodeTxPayload(reader): r := bufio.NewReader(reader), then the fields
DecodeTx(s, pos) == TxThroughBufio(s, pos, DecodeTxFields(s, pos))

RECURSIVE DecodeTxs(_, _)
\* the loop of decodeBlockPayload over transactionsCount, after one round
DecodeTxsAfter(s, one, count) ==
    IF one.err THEN Failed
    ELSE ListCons(one, DecodeTxs(s, Decoded(count - 1, one.pos)))

\* "count, err := DecodeVarInt(r)" and the loop of decodeBlockPayload over transactionsCount
DecodeTxs(s, count) ==
    IF count.err THEN Failed
    ELSE IF count.val = 0 THEN Decoded(<<>>, count.pos)
    ELSE DecodeTxsAfter(s, DecodeTx(s, count.pos), count.val)

\* decodeBlockPayload, from the header octets and the transactions
BlockOf(s, pos, txs) ==
    IF txs.err THEN Failed
    ELSE Decoded([Version |-> ReadLittleEndian(s, pos, 4).val,
                  PrevBlock |-> ReadLittleEndian(s, pos + 4, 32).val,
                  MerkleRoot |-> ReadLittleEndian(s, pos + 36, 32).val,
                  Timestamp |-> ReadLittleEndian(s, pos + 68, 4).val,
                  Bits |-> ReadLittleEndian(s, pos + 72, 4).val,
                  Nonce |-> ReadLittleEndian(s, pos + 76, 4).val,
                  Transactions |-> txs.val], txs.pos)

\* decodeBlockPayload: the six header fields (80 octets), the transaction
\* count and the transactions
DecodeBlock(s, pos) ==
    IF pos + 80 > Len(s) THEN Failed
    ELSE BlockOf(s, pos, DecodeTxs(s, DecodeVarInt(s, pos + 80)))

(***************************************************************************)
(* The snapshot file.  A file is [exists, data].                           *)
(***************************************************************************)
NoFile == [exists |-> FALSE, data |-> <<>>]
FileOf(octets) == [exists |-> TRUE, data |-> octets]

\* what saveBlocksToDisk writes: the block count, then every block
Snapshot(blocks) ==
    VarIntEncode(Len(blocks)) \o Concat([i \in 1..Len(blocks) |-> EncodeBlock(blocks[i])])

RECURSIVE DecodeBlocks(_, _)
\* the first loop of readBlocksFromDisk, over blocksCount, after one round
DecodeBlocksAfter(s, one, count) ==
    IF one.err THEN Failed
    ELSE ListCons(one, DecodeBlocks(s, Decoded(count - 1, one.pos)))

\* "count, err := DecodeVarInt(r)" and the first loop of readBlocksFromDisk, over blocksCount
DecodeBlocks(s, count) ==
    IF count.err THEN Failed
    ELSE IF count.val = 0 THEN Decoded(<<>>, count.pos)
    ELSE DecodeBlocksAfter(s, DecodeBlock(s, count.pos), count.val)

\* os.Open, DecodeVarInt and the first loop of readBlocksFromDisk
ReadBlocksFile(file) ==
    IF ~file.exists THEN Failed
    ELSE DecodeBlocks(file.data, DecodeVarInt(file.data, 0))

\* NewNode
NewNode ==
    [peers |-> {}, connectedAddrs |-> {}, unconnectedAddrs |-> {}, blocks |-> <<>>,
     blockHashes |-> {}, HasQuit |-> FALSE, QuitCh |-> FALSE, mu |-> "free",
     addPeersCh |-> 0, invMsgCh |-> <<>>, blockMsgCh |-> <<>>]

\* addBlockToNode without the look-up of the hash in n.blockHashes
addBlockToNodeUnchecked(n, block) ==
    [n EXCEPT !.blockHashes = @ \cup {GetBlockHash(block)},
              !.blocks = Append(@, block)]

\* addBlockToNode, on the node record n
addBlockToNode(n, block) ==
    IF GetBlockHash(block) \in n.blockHashes
    THEN n
    ELSE [n EXCEPT !.blockHashes = @ \cup {GetBlockHash(block)},
                   !.blocks = Append(@, block)]

RECURSIVE addBlocksToNode(_, _)
\* the second loop of readBlocksFromDisk
addBlocksToNode(n, blocks) ==
    IF blocks = <<>> THEN n
    ELSE addBlocksToNode(addBlockToNode(n, Head(blocks)), Tail(blocks))

\* what readBlocksFromDisk returns: "notExist" (os.ErrNotExist), "decode" or
\* "nil"
ReadBlocksError(file, blocks) ==
    IF ~file.exists THEN "notExist" ELSE IF blocks.err THEN "decode" ELSE "nil"

\* readBlocksFromDisk: [err, node]
ReadBlocksInto(n, file, blocks) ==
    [err |-> ReadBlocksError(file, blocks),
     node |-> IF blocks.err THEN n ELSE addBlocksToNode(n, blocks.val)]

readBlocksFromDisk(n, file) == ReadBlocksInto(n, file, ReadBlocksFile(file))

\* getMissingBlocksHashes
\* the loop of getMissingBlocksHashes without the lookup in n.blockHashes
getMissingBlocksHashesAll(n) ==
    LET orphans == SelectSeq(n.blocks, LAMBDA b : b.PrevBlock # ZeroHash)
    IN [i \in 1..Len(orphans) |-> orphans[i].PrevBlock]

getMissingBlocksHashes(n) ==
    LET orphans == SelectSeq(n.blocks,
                       LAMBDA b : b.PrevBlock \notin n.blockHashes /\ b.PrevBlock # ZeroHash)
    IN [i \in 1..Len(orphans) |-> orphans[i].PrevBlock]

RECURSIVE LatestBlock(_, _, _)
\* the loop of getLatestBlockHash: the first block with the greatest
\* timestamp above 0, or `latest` when there is none
LatestBlock(blocks, latestTimestamp, latest) ==
    IF blocks = <<>> THEN latest
    ELSE IF Head(blocks).Timestamp > latestTimestamp
    THEN LatestBlock(Tail(blocks), Head(blocks).Timestamp, <<Head(blocks)>>)
    ELSE LatestBlock(Tail(blocks), latestTimestamp, latest)

\* getLatestBlockHash: [err, hash]
getLatestBlockHash(n) ==
    LET latest == LatestBlock(n.blocks, 0, <<>>)
    IN IF latest = <<>> THEN [err |-> TRUE, hash |-> ZeroHash]
       ELSE [err |-> FALSE, hash |-> GetBlockHash(latest[1])]

(***************************************************************************)
(* What the remote ends send (the decoded messages of DecodeMessage).      *)
(***************************************************************************)
MsgBlock == 2
MsgTx == 1
MsgWitnessBlock == 1073741826

\* a block without parent, its child, a block whose parent nobody sends,
\* a block with the header of the first one but another transaction list,
\* and a block without parent whose timestamp field is 0
BlockA == Blk(ZeroHash, 1, 0, <<>>)
BlockB == Blk(GetBlockHash(BlockA), 2, 0, <<>>)
BlockC == Blk(GetBlockHash(Blk(ZeroHash, 1, 1, <<>>)), 2, 1, <<>>)
Tx1 ==
    [Version |-> 1,
     TransactionInputs |-> <<[PreviousOutput |-> [Hash |-> 7, Index |-> 0],
                              SignatureScript |-> <<81>>, Sequence |-> 0]>>,
     TransactionOutputs |-> <<[Value |-> 5, PkScript |-> <<82>>]>>,
     TransactionWitnesses |-> <<>>, LockTime |-> 0]
BlockA2 == Blk(ZeroHash, 1, 0, <<Tx1>>)

BlockZ == Blk(ZeroHash, 0, 0, <<>>)

WireBlocks == {BlockA, BlockB, BlockC, BlockA2, BlockZ}

PingMsgs == {[Command |-> "ping", Nonce |-> n] : n \in {100, 101}}
AddrMsgs == {[Command |-> "addr", AddressList |-> l] : l \in {<<1>>, <<2>>, <<1, 2>>}}
InvMsgs ==
    {[Command |-> "inv", InventoryList |-> l] :
        l \in {<<[Type |-> MsgBlock, Hash |-> GetBlockHash(BlockA)]>>,
               <<[Type |-> MsgTx, Hash |-> GetBlockHash(BlockB)],
                 [Type |-> MsgWitnessBlock, Hash |-> GetBlockHash(BlockB)]>>}}
BlockMsgs == {[Command |-> "block", Block |-> b] : b \in WireBlocks}

NoMsg == [Command |-> "none"]

\* what the supervisor sends
GetAddrMsg == [Command |-> "getaddr"]
GetDataMsg(hashes) ==
    [Command |-> "getdata",
     Inventory |-> [i \in 1..Len(hashes) |-> [Type |-> MsgBlock, Hash |-> hashes[i]]]]
GetBlocksMsg(version, locator, hashStop) ==
    [Command |-> "getblocks", Version |-> version, BlockLocatorHashes |-> locator,
     HashStop |-> hashStop]

ProtocolVersion == 70015
GenesisBlockHash == GetBlockHash(BlockA)

\* a snapshot of which the last octet is missing
CutSnapshot(blocks) == SubSeq(Snapshot(blocks), 1, Len(Snapshot(blocks)) - 1)

\* the file at the target path when the process starts: none, what an
\* earlier run of the program left there, or a file that lost its end
StartFiles ==
    {NoFile, FileOf(Snapshot(<<BlockA>>)),
     FileOf(Snapshot(<<BlockA2, Blk(GetBlockHash(BlockA), 2, 0, <<Tx1>>)>>)),
     FileOf(CutSnapshot(<<BlockA>>))}

VARIABLES
    node,       \* the Node struct: its maps, block set, quit state and channels
    peer,       \* the Peer structs, by peer id
    readLoop,   \* where each peer's readLoop goroutine is
    msgChLoop,  \* where each peer's msgChLoop goroutine is
    writeLoop,  \* where each peer's writeLoop goroutine is
    sup,        \* the goroutine of Node.Start / selectLoop
    nq,         \* the calls of Node.Quit, by calling goroutine
    worker,     \* the dial goroutines of attemptAddingSomePeers, by address
    mainPc,     \* main after "go node.Start()"
    env,        \* what the environment has done so far (bounded)
    wire,       \* per peer, the conn.Write calls made on its transport
    hist        \* history: per peer the Quit calls that got the lock and the
                \* onQuitting calls; the peers ever registered; block events
                \* dropped as duplicates; dumps started and the peers that
                \* had not quit then; whether a Node.Quit that quit returned;
                \* per peer the address-reply channels made; the peers whose
                \* getaddr wait elapsed, that the remote end sent or closed
                \* something on, and on which a transport write failed

vars == <<node, peer, readLoop, msgChLoop, writeLoop, sup, nq, worker, mainPc,
          env, wire, hist>>

Callers == {"sup", "main"}

NoPeer == 0

\* p.getAddrMsgResponseCh when it is nil; a channel is the number of the
\* make() that made it, counted per peer
NoChan == 0

NewPeer(addr) ==
    [state |-> "new", tcpAddress |-> addr, HasQuit |-> FALSE, QuitCh |-> FALSE,
     connClosed |-> FALSE, mu |-> "free", quitPc |-> "idle",
     getAddrMsgResponseCh |-> NoChan, msgCh |-> <<>>, writeCh |-> <<>>]

NoSuchPeer == [NewPeer(0) EXCEPT !.state = "none"]

SupAt(pc) ==
    [pc |-> pc, peer |-> NoPeer, msg |-> NoMsg, addrs |-> <<>>, count |-> 0, ch |-> NoChan,
     late |-> FALSE]

\* a call of Node.Quit that is not running
NoCall ==
    [pc |-> "idle", keys |-> {}, cur |-> NoPeer, ret |-> "none", blocks |-> <<>>, i |-> 0]

\* the history of a process that started with `file` at the target path
NoHist(file) ==
    [quits |-> [p \in PeerIds |-> 0], onQuitting |-> [p \in PeerIds |-> 0],
     registered |-> {}, duplicates |-> 0, dumps |-> 0, unquitAtDump |-> {},
     quitReturned |-> FALSE, startFile |-> file, dumped |-> <<>>, renamed |-> FALSE,
     restored |-> "none", chans |-> [p \in PeerIds |-> 0], timedOut |-> {},
     heard |-> {}, writeFailed |-> {},
     received |-> [p \in PeerIds |-> <<>>], invs |-> <<>>, blocks |-> <<>>, ticks |-> 0]

\* main up to "go node.Start()": NewNode, and AddPeer of the first peer
Init ==
    /\ node = [NewNode EXCEPT !.peers = {1}, !.connectedAddrs = {1}]
    /\ peer = [p \in PeerIds |->
                 IF p = 1 THEN [NewPeer(1) EXCEPT !.state = "started"] ELSE NoSuchPeer]
    /\ readLoop = [p \in PeerIds |-> [pc |-> IF p = 1 THEN "read" ELSE "off", msg |-> NoMsg]]
    /\ msgChLoop = [p \in PeerIds |-> [pc |-> IF p = 1 THEN "select" ELSE "off", msg |-> NoMsg]]
    /\ writeLoop = [p \in PeerIds |-> [pc |-> IF p = 1 THEN "select" ELSE "off", bytes |-> NoMsg]]
    /\ sup = SupAt("start")
    /\ nq = [c \in Callers |-> NoCall]
    /\ worker = [a \in Addrs |-> [pc |-> "idle", peer |-> NoPeer]]
    /\ mainPc = "wait"
    /\ env \in {[events |-> 0, adds |-> 0, file |-> f, tmp |-> NoFile] : f \in StartFiles}
    /\ wire = [p \in PeerIds |-> <<>>]
    /\ hist = [NoHist(env.file) EXCEPT !.registered = {1}]

\* main has not returned: the process, and every goroutine in it, still runs
Running == mainPc # "exit"

(***************************************************************************)
(* Peer.Quit.  The caller is the peer's own readLoop ("reader") or a call  *)
(* of Node.Quit ("sup", "main") that has reached this peer.                *)
(***************************************************************************)
CallsPeerQuit(c, p) ==
    IF c = "reader"
    THEN readLoop[p].pc = "quit"
    ELSE nq[c].pc = "peerQuit" /\ nq[c].cur = p

\* Peer.Quit has returned to caller c
ReturnFromPeerQuit(c, p) ==
    IF c = "reader"
    THEN /\ readLoop' = [readLoop EXCEPT ![p].pc = "done"]
         /\ nq' = nq
    ELSE /\ nq' = [nq EXCEPT ![c].pc = "loop", ![c].cur = NoPeer]
         /\ readLoop' = readLoop

\* Peer.Quit on a peer that has quit, without "if p.HasQuit { return }"
PeerQuitAgainCallsBack(c, p) ==
    /\ Running
    /\ CallsPeerQuit(c, p)
    /\ peer[p].mu = "free"
    /\ peer[p].HasQuit
    /\ peer' = [peer EXCEPT ![p].mu = c, ![p].quitPc = "connectedAddrs"]
    /\ hist' = [hist EXCEPT !.quits[p] = @ + 1, !.onQuitting[p] = @ + 1]
    /\ UNCHANGED <<node, readLoop, msgChLoop, writeLoop, sup, nq, worker, mainPc, env, wire>>

\* p.mu.Lock(); if p.HasQuit { return }
PeerQuitAgain(c, p) ==
    /\ Running
    /\ CallsPeerQuit(c, p)
    /\ peer[p].mu = "free"
    /\ peer[p].HasQuit
    /\ ReturnFromPeerQuit(c, p)
    /\ hist' = [hist EXCEPT !.quits[p] = @ + 1]
    /\ UNCHANGED <<node, peer, msgChLoop, writeLoop, sup, worker, mainPc, env, wire>>

\* p.mu.Lock(); p.HasQuit = true; p.onQuitting(p) up to n.peers.Delete(peerNode)
PeerQuit(c, p) ==
    /\ Running
    /\ CallsPeerQuit(c, p)
    /\ peer[p].mu = "free"
    /\ ~peer[p].HasQuit
    /\ peer' = [peer EXCEPT ![p].mu = c, ![p].HasQuit = TRUE, ![p].quitPc = "connectedAddrs"]
    /\ node' = [node EXCEPT !.peers = @ \ {p}]
    /\ hist' = [hist EXCEPT !.quits[p] = @ + 1, !.onQuitting[p] = @ + 1]
    /\ UNCHANGED <<readLoop, msgChLoop, writeLoop, sup, nq, worker, mainPc, env, wire>>

\* removePeerFromNode: n.connectedAddrs.Delete(peerNode.tcpAddress)
RemovePeerConnectedAddr(p) ==
    /\ Running
    /\ peer[p].quitPc = "connectedAddrs"
    /\ node' = [node EXCEPT !.connectedAddrs = @ \ {peer[p].tcpAddress}]
    /\ peer' = [peer EXCEPT ![p].quitPc = "notify"]
    /\ UNCHANGED <<readLoop, msgChLoop, writeLoop, sup, nq, worker, mainPc, env, wire, hist>>

\* notifyThatPeersIsBelowMinPeers: a send on addPeersCh (capacity 1) that
\* never blocks
notifyThatPeersIsBelowMinPeers(n) == [n EXCEPT !.addPeersCh = 1]

\* removePeerFromNode: if n.peers.Len() < n.minimumPeers { notify }
RemovePeerNotify(p) ==
    /\ Running
    /\ peer[p].quitPc = "notify"
    /\ node' = IF Cardinality(node.peers) < minimumPeers
               THEN notifyThatPeersIsBelowMinPeers(node)
               ELSE node
    /\ peer' = [peer EXCEPT ![p].quitPc = "connClose"]
    /\ UNCHANGED <<readLoop, msgChLoop, writeLoop, sup, nq, worker, mainPc, env, wire, hist>>

\* _ = p.conn.Close()
PeerQuitCloseConn(p) ==
    /\ Running
    /\ peer[p].quitPc = "connClose"
    /\ peer' = [peer EXCEPT ![p].connClosed = TRUE, ![p].quitPc = "closeQuitCh"]
    /\ UNCHANGED <<node, readLoop, msgChLoop, writeLoop, sup, nq, worker, mainPc, env, wire, hist>>

\* close(p.QuitCh), the deferred p.mu.Unlock(), and the return
PeerQuitCloseQuitCh(p) ==
    /\ Running
    /\ peer[p].quitPc = "closeQuitCh"
    /\ peer' = [peer EXCEPT ![p].QuitCh = TRUE, ![p].quitPc = "idle", ![p].mu = "free"]
    /\ ReturnFromPeerQuit(peer[p].mu, p)
    /\ UNCHANGED <<node, msgChLoop, writeLoop, sup, worker, mainPc, env, wire, hist>>

(***************************************************************************)
(* Peer.readLoop                                                           *)
(***************************************************************************)
\* message.DecodeMessage(p.conn) returns a message
ReadMessage(p, m) ==
    /\ Running
    /\ readLoop[p].pc = "read"
    /\ ~peer[p].connClosed
    /\ env.events < MaxEvents
    /\ env' = [env EXCEPT !.events = @ + 1]
    /\ readLoop' = [readLoop EXCEPT ![p] = [pc |-> "send", msg |-> m]]
    /\ hist' = [hist EXCEPT !.heard = @ \cup {p}, !.received[p] = Append(@, m)]
    /\ UNCHANGED <<node, peer, msgChLoop, writeLoop, sup, nq, worker, mainPc, wire>>

\* DecodeMessage fails with an error that is not ErrUnknownCommandName: the
\* transport was closed by Quit, or the remote closed it or sent garbage
ReadError(p) ==
    /\ Running
    /\ readLoop[p].pc = "read"
    /\ IF peer[p].connClosed
       THEN env' = env /\ hist' = hist
       ELSE /\ env.events < MaxEvents
            /\ env' = [env EXCEPT !.events = @ + 1]
            /\ hist' = [hist EXCEPT !.heard = @ \cup {p}]
    /\ readLoop' = [readLoop EXCEPT ![p].pc = "quit"]
    /\ UNCHANGED <<node, peer, msgChLoop, writeLoop, sup, nq, worker, mainPc, wire>>

\* p.msgCh <- msg
ReadSend(p) ==
    /\ Running
    /\ readLoop[p].pc = "send"
    /\ Len(peer[p].msgCh) < ChanCap
    /\ peer' = [peer EXCEPT ![p].msgCh = Append(@, readLoop[p].msg)]
    /\ readLoop' = [readLoop EXCEPT ![p] = [pc |-> "read", msg |-> NoMsg]]
    /\ UNCHANGED <<node, msgChLoop, writeLoop, sup, nq, worker, mainPc, env, wire, hist>>

(***************************************************************************)
(* Peer.msgChLoop                                                          *)
(***************************************************************************)
\* case <-p.QuitCh: return
MsgChLoopQuit(p) ==
    /\ Running
    /\ msgChLoop[p].pc = "select"
    /\ peer[p].QuitCh
    /\ msgChLoop' = [msgChLoop EXCEPT ![p].pc = "done"]
    /\ UNCHANGED <<node, peer, readLoop, writeLoop, sup, nq, worker, mainPc, env, wire, hist>>

\* the handler the switch on msg.Header.Command selects
HandlerOf(m) ==
    IF m.Command \in {"ping", "addr", "inv", "block"} THEN m.Command ELSE "select"

\* case msg := <-p.msgCh
MsgChLoopReceive(p) ==
    /\ Running
    /\ msgChLoop[p].pc = "select"
    /\ peer[p].msgCh # <<>>
    /\ LET m == Head(peer[p].msgCh)
       IN msgChLoop' = [msgChLoop EXCEPT ![p] = [pc |-> HandlerOf(m), msg |-> m]]
    /\ peer' = [peer EXCEPT ![p].msgCh = Tail(@)]
    /\ UNCHANGED <<node, readLoop, writeLoop, sup, nq, worker, mainPc, env, wire, hist>>

\* the answer to a ping with a nonce of its own
PongOfZero(m) == [Command |-> "pong", Nonce |-> 0]

PongOf(m) == [Command |-> "pong", Nonce |-> m.Nonce]

\* handlePingMessage: p.write(pongMsgEncoded)
handlePingMessage(p) ==
    /\ Running
    /\ msgChLoop[p].pc = "ping"
    /\ Len(peer[p].writeCh) < ChanCap
    /\ peer' = [peer EXCEPT ![p].writeCh = Append(@, PongOf(msgChLoop[p].msg))]
    /\ msgChLoop' = [msgChLoop EXCEPT ![p] = [pc |-> "select", msg |-> NoMsg]]
    /\ UNCHANGED <<node, readLoop, writeLoop, sup, nq, worker, mainPc, env, wire, hist>>

\* the single-entry self announcement handleAddrMessage drops
IsSelfAnnouncement(p, list) == Len(list) = 1 /\ list[1] = peer[p].tcpAddress

\* handleAddrMessage up to the send: takes p.mu; returns when no request is
\* in flight or the payload is the remote's own address
handleAddrMessage(p) ==
    /\ Running
    /\ msgChLoop[p].pc = "addr"
    /\ peer[p].mu = "free"
    /\ IF \/ peer[p].getAddrMsgResponseCh = NoChan
          \/ IsSelfAnnouncement(p, msgChLoop[p].msg.AddressList)
       THEN /\ msgChLoop' = [msgChLoop EXCEPT ![p] = [pc |-> "select", msg |-> NoMsg]]
            /\ peer' = peer
       ELSE /\ msgChLoop' = [msgChLoop EXCEPT ![p].pc = "addrSend"]
            /\ peer' = [peer EXCEPT ![p].mu = "disp"]
    /\ UNCHANGED <<node, readLoop, writeLoop, sup, nq, worker, mainPc, env, wire, hist>>

\* p.getAddrMsgResponseCh <- addrPayload.AddressList on the unbuffered
\* channel: it happens when the supervisor is in its select on that channel;
\* then close, p.getAddrMsgResponseCh = nil, unlock
handleAddrMessageSend(p) ==
    /\ Running
    /\ msgChLoop[p].pc = "addrSend"
    /\ sup.pc = "waitAddr"
    /\ sup.peer = p
    /\ sup.ch = peer[p].getAddrMsgResponseCh
    /\ sup' = [sup EXCEPT !.pc = "addAddrs", !.addrs = msgChLoop[p].msg.AddressList]
    /\ peer' = [peer EXCEPT ![p].getAddrMsgResponseCh = NoChan, ![p].mu = "free"]
    /\ msgChLoop' = [msgChLoop EXCEPT ![p] = [pc |-> "select", msg |-> NoMsg]]
    /\ UNCHANGED <<node, readLoop, writeLoop, nq, worker, mainPc, env, wire, hist>>

\* handleInvMessage: p.invMsgCh <- &InvPayloadWithSender{...}
\* handleInvMessage on a channel that hands out the newest event first
handleInvMessageFirst(p) ==
    /\ Running
    /\ msgChLoop[p].pc = "inv"
    /\ Len(node.invMsgCh) < minimumPeers
    /\ node' = [node EXCEPT !.invMsgCh =
                  <<[Sender |-> p, InvPayload |-> msgChLoop[p].msg.InventoryList]>> \o @]
    /\ msgChLoop' = [msgChLoop EXCEPT ![p] = [pc |-> "select", msg |-> NoMsg]]
    /\ UNCHANGED <<peer, readLoop, writeLoop, sup, nq, worker, mainPc, env, wire, hist>>

handleInvMessage(p) ==
    /\ Running
    /\ msgChLoop[p].pc = "inv"
    /\ Len(node.invMsgCh) < minimumPeers
    /\ node' = [node EXCEPT !.invMsgCh =
                  Append(@, [Sender |-> p, InvPayload |-> msgChLoop[p].msg.InventoryList])]
    /\ msgChLoop' = [msgChLoop EXCEPT ![p] = [pc |-> "select", msg |-> NoMsg]]
    /\ UNCHANGED <<peer, readLoop, writeLoop, sup, nq, worker, mainPc, env, wire, hist>>

\* handleBlockMessage: p.blockMsgCh <- &BlockPayloadWithSender{...}
handleBlockMessage(p) ==
    /\ Running
    /\ msgChLoop[p].pc = "block"
    /\ Len(node.blockMsgCh) < minimumPeers
    /\ node' = [node EXCEPT !.blockMsgCh =
                  Append(@, [Sender |-> p, BlockPayload |-> msgChLoop[p].msg.Block])]
    /\ msgChLoop' = [msgChLoop EXCEPT ![p] = [pc |-> "select", msg |-> NoMsg]]
    /\ UNCHANGED <<peer, readLoop, writeLoop, sup, nq, worker, mainPc, env, wire, hist>>

(***************************************************************************)
(* Peer.writeLoop                                                          *)
(***************************************************************************)
\* case <-p.QuitCh: return
WriteLoopQuit(p) ==
    /\ Running
    /\ writeLoop[p].pc = "select"
    /\ peer[p].QuitCh
    /\ writeLoop' = [writeLoop EXCEPT ![p].pc = "done"]
    /\ UNCHANGED <<node, peer, readLoop, msgChLoop, sup, nq, worker, mainPc, env, wire, hist>>

\* case bytes := <-p.writeCh
WriteLoopReceive(p) ==
    /\ Running
    /\ writeLoop[p].pc = "select"
    /\ peer[p].writeCh # <<>>
    /\ writeLoop' = [writeLoop EXCEPT ![p] = [pc |-> "write", bytes |-> Head(peer[p].writeCh)]]
    /\ peer' = [peer EXCEPT ![p].writeCh = Tail(@)]
    /\ UNCHANGED <<node, readLoop, msgChLoop, sup, nq, worker, mainPc, env, wire, hist>>

\* _, err := p.conn.Write(bytes): fails on a transport Quit has closed; the
\* error is only logged
WriteLoopWrite(p) ==
    /\ Running
    /\ writeLoop[p].pc = "write"
    /\ wire' = [wire EXCEPT ![p] =
                  Append(@, [bytes |-> writeLoop[p].bytes, err |-> peer[p].connClosed])]
    /\ writeLoop' = [writeLoop EXCEPT ![p] = [pc |-> "select", bytes |-> NoMsg]]
    /\ hist' = IF peer[p].connClosed
               THEN [hist EXCEPT !.writeFailed = @ \cup {p}]
               ELSE hist
    /\ UNCHANGED <<node, peer, readLoop, msgChLoop, sup, nq, worker, mainPc, env>>

\* _, err := p.conn.Write(bytes) fails on a transport that Quit has not
\* closed (the remote end is gone): the error is logged and the loop goes on
WriteLoopWriteFails(p) ==
    /\ Running
    /\ writeLoop[p].pc = "write"
    /\ ~peer[p].connClosed
    /\ env.events < MaxEvents
    /\ env' = [env EXCEPT !.events = @ + 1]
    /\ wire' = [wire EXCEPT ![p] = Append(@, [bytes |-> writeLoop[p].bytes, err |-> TRUE])]
    /\ writeLoop' = [writeLoop EXCEPT ![p] = [pc |-> "select", bytes |-> NoMsg]]
    /\ hist' = [hist EXCEPT !.writeFailed = @ \cup {p}]
    /\ UNCHANGED <<node, peer, readLoop, msgChLoop, sup, nq, worker, mainPc>>

(***************************************************************************)
(* Node.Quit, called by the supervisor goroutine ("sup") or by main        *)
(***************************************************************************)
\* Node.Quit returns to its caller c: the supervisor goes on where it said,
\* main at its "<-node.QuitCh"
ReturnFromNodeQuit(c) ==
    /\ nq' = [nq EXCEPT ![c] = NoCall]
    /\ IF c = "sup"
       THEN sup' = [sup EXCEPT !.pc = nq[c].ret] /\ mainPc' = mainPc
       ELSE mainPc' = "waitQuitCh" /\ sup' = sup

\* n.mu.Lock(); if n.HasQuit { return }; n.HasQuit = true; n.peers.Keys()
NodeQuitLock(c) ==
    /\ Running
    /\ nq[c].pc = "lock"
    /\ node.mu = "free"
    /\ IF node.HasQuit
       THEN /\ ReturnFromNodeQuit(c)
            /\ node' = node
       ELSE /\ node' = [node EXCEPT !.mu = c, !.HasQuit = TRUE]
            /\ nq' = [nq EXCEPT ![c].pc = "loop", ![c].keys = node.peers]
            /\ UNCHANGED <<sup, mainPc>>
    /\ UNCHANGED <<peer, readLoop, msgChLoop, writeLoop, worker, env, wire, hist>>

\* for _, peer := range keys { peer.Quit() }: the call on the next peer
NodeQuitNextPeer(c, p) ==
    /\ Running
    /\ nq[c].pc = "loop"
    /\ p \in nq[c].keys
    /\ nq' = [nq EXCEPT ![c].pc = "peerQuit", ![c].cur = p, ![c].keys = @ \ {p}]
    /\ UNCHANGED <<node, peer, readLoop, msgChLoop, writeLoop, sup, worker, mainPc, env, wire, hist>>

\* close(n.QuitCh)
NodeQuitClose(c) ==
    /\ Running
    /\ nq[c].pc = "loop"
    /\ nq[c].keys = {}
    /\ node' = [node EXCEPT !.QuitCh = TRUE]
    /\ nq' = [nq EXCEPT ![c].pc = "save"]
    /\ UNCHANGED <<peer, readLoop, msgChLoop, writeLoop, sup, worker, mainPc, env, wire, hist>>

\* n.saveBlocksToDisk() is entered: blocks := n.blocks.GetAll()
NodeQuitSaveBegin(c) ==
    /\ Running
    /\ nq[c].pc = "save"
    /\ nq' = [nq EXCEPT ![c].pc = "saving", ![c].blocks = node.blocks]
    /\ hist' = [hist EXCEPT !.dumps = @ + 1, !.dumped = node.blocks,
                            !.unquitAtDump = {p \in hist.registered : ~peer[p].HasQuit}]
    /\ UNCHANGED <<node, peer, readLoop, msgChLoop, writeLoop, sup, worker, mainPc, env, wire>>

\* a saveBlocksToDisk that creates, fills and renames the temporary file
\* whatever the number of blocks is
saveBlocksToDiskAlways(file, blocks) ==
    FileOf(Snapshot(blocks))

\* the file at the target path after a saveBlocksToDisk in which no call fails
saveBlocksToDisk(file, blocks) ==
    IF Len(blocks) = 0 THEN file ELSE FileOf(Snapshot(blocks))

\* saveBlocksToDisk runs without a failing call and returns, the deferred
\* n.mu.Unlock(), and the return
NodeQuitSaved(c) ==
    /\ Running
    /\ nq[c].pc = "saving"
    /\ env' = [env EXCEPT !.file = saveBlocksToDisk(@, nq[c].blocks)]
    /\ node' = [node EXCEPT !.mu = "free"]
    /\ hist' = [hist EXCEPT !.quitReturned = TRUE, !.renamed = Len(nq[c].blocks) > 0]
    /\ ReturnFromNodeQuit(c)
    /\ UNCHANGED <<peer, readLoop, msgChLoop, writeLoop, worker, wire>>

(***************************************************************************)
(* Node.Start and Node.selectLoop: the supervisor goroutine                *)
(***************************************************************************)
\* the supervisor calls n.Quit() and goes on at `ret` when it returns
SupCallsNodeQuit(ret) ==
    /\ sup' = [sup EXCEPT !.pc = "nodeQuit"]
    /\ nq' = [nq EXCEPT !["sup"].pc = "lock", !["sup"].ret = ret]

\* Node.Start up to n.selectLoop()
SupStart ==
    /\ Running
    /\ sup.pc = "start"
    /\ LET r == readBlocksFromDisk(node, env.file)
       IN IF r.err = "decode"
          THEN /\ SupCallsNodeQuit("done")
               /\ node' = node
          ELSE /\ node' = IF Cardinality(node.peers) < minimumPeers
                          THEN notifyThatPeersIsBelowMinPeers(r.node)
                          ELSE r.node
               /\ sup' = SupAt("select")
               /\ nq' = nq
    /\ UNCHANGED <<peer, readLoop, msgChLoop, writeLoop, worker, mainPc, env, wire, hist>>

\* case <-n.QuitCh: return
SupSelectQuit ==
    /\ Running
    /\ sup.pc = "select"
    /\ node.QuitCh
    /\ sup' = SupAt("done")
    /\ UNCHANGED <<node, peer, readLoop, msgChLoop, writeLoop, nq, worker, mainPc, env, wire, hist>>

\* the supervisor is about to p.write(msg) on peer p
SupWrites(p, msg) == [SupAt("write") EXCEPT !.peer = p, !.msg = msg]

\* requestForNewBlocks, with randomPeer the result of n.peers.GetRandomKey()
requestForNewBlocks(n, randomPeer) ==
    LET latest == IF Len(n.blocks) > 0
                  THEN getLatestBlockHash(n)
                  ELSE [err |-> FALSE, hash |-> GenesisBlockHash]
    IN IF latest.err \/ randomPeer = NoPeer
       THEN SupAt("select")
       ELSE SupWrites(randomPeer,
                      GetBlocksMsg(ProtocolVersion, <<latest.hash>>, ZeroHash))

\* handleTickerResponse, with randomPeer the result of n.peers.GetRandomKey()
handleTickerResponse(n, randomPeer) ==
    LET missingBlocksHashes == getMissingBlocksHashes(n)
    IN IF Len(missingBlocksHashes) > 0
       THEN IF randomPeer = NoPeer
            THEN SupAt("select")
            ELSE SupWrites(randomPeer, GetDataMsg(missingBlocksHashes))
       ELSE requestForNewBlocks(n, randomPeer)

\* SafeMap.GetRandomKey on the peer map: any key, or none when it is empty
RandomKeys(n) == IF n.peers = {} THEN {NoPeer} ELSE n.peers

\* case <-ticker.C
SupTick ==
    /\ Running
    /\ sup.pc = "select"
    /\ env.events < MaxEvents
    /\ env' = [env EXCEPT !.events = @ + 1]
    /\ \E randomPeer \in RandomKeys(node) : sup' = handleTickerResponse(node, randomPeer)
    /\ hist' = [hist EXCEPT !.ticks = @ + 1]
    /\ UNCHANGED <<node, peer, readLoop, msgChLoop, writeLoop, nq, worker, mainPc, wire>>

\* Peer.write from the supervisor: p.writeCh <- bytes
SupWrite ==
    /\ Running
    /\ sup.pc = "write"
    /\ Len(peer[sup.peer].writeCh) < ChanCap
    /\ peer' = [peer EXCEPT ![sup.peer].writeCh = Append(@, sup.msg)]
    /\ sup' = SupAt("select")
    /\ UNCHANGED <<node, readLoop, msgChLoop, writeLoop, nq, worker, mainPc, env, wire, hist>>

\* handleInvMsg: the hashes of the block inventories the node does not hold
\* the loop of handleInvMsg without the lookup in n.blockHashes
UnknownBlockHashesAll(n, list) ==
    LET wanted == SelectSeq(list, LAMBDA i : i.Type \in {MsgBlock, MsgWitnessBlock})
    IN [k \in 1..Len(wanted) |-> wanted[k].Hash]

UnknownBlockHashes(n, list) ==
    LET wanted == SelectSeq(list, LAMBDA i : /\ i.Type \in {MsgBlock, MsgWitnessBlock}
                                             /\ i.Hash \notin n.blockHashes)
    IN [k \in 1..Len(wanted) |-> wanted[k].Hash]

\* the sender of an event had quit and had been removed from n.peers when the
\* supervisor received the event
SenderGone(p) == peer[p].HasQuit /\ p \notin node.peers

\* case invMsg := <-n.invMsgCh, and handleInvMsg
SupInv ==
    /\ Running
    /\ sup.pc = "select"
    /\ node.invMsgCh # <<>>
    /\ LET i == Head(node.invMsgCh)
           blockHashes == UnknownBlockHashes(node, i.InvPayload)
       IN sup' = IF Len(blockHashes) = 0
                 THEN SupAt("select")
                 ELSE [SupWrites(i.Sender, GetDataMsg(blockHashes))
                          EXCEPT !.late = SenderGone(i.Sender)]
    /\ node' = [node EXCEPT !.invMsgCh = Tail(@)]
    /\ hist' = [hist EXCEPT !.invs = Append(@, Head(node.invMsgCh))]
    /\ UNCHANGED <<peer, readLoop, msgChLoop, writeLoop, nq, worker, mainPc, env, wire>>

\* case blockMsg := <-n.blockMsgCh, and handleBlockMsg
SupBlock ==
    /\ Running
    /\ sup.pc = "select"
    /\ node.blockMsgCh # <<>>
    /\ LET msg == Head(node.blockMsgCh)
           n == addBlockToNode([node EXCEPT !.blockMsgCh = Tail(@)], msg.BlockPayload)
           missingBlockHashes == getMissingBlocksHashes(n)
       IN /\ node' = n
          /\ sup' = IF Len(missingBlockHashes) = 0
                    THEN SupAt("select")
                    ELSE [SupWrites(msg.Sender, GetDataMsg(missingBlockHashes))
                             EXCEPT !.late = SenderGone(msg.Sender)]
          /\ hist' = [hist EXCEPT !.blocks = Append(@, msg),
                                   !.duplicates =
                                       IF GetBlockHash(msg.BlockPayload) \in node.blockHashes
                                       THEN @ + 1 ELSE @]
    /\ UNCHANGED <<peer, readLoop, msgChLoop, writeLoop, nq, worker, mainPc, env, wire>>

(***************************************************************************)
(* case <-n.addPeersCh: handleAddPeersChResponse / addPeersIfNecessary     *)
(***************************************************************************)
\* the first test of addPeersIfNecessary without its first operand
NoPeersOrUnconnectedAddrsLax(n) == n.unconnectedAddrs = {}

\* the first test of addPeersIfNecessary
NoPeersOrUnconnectedAddrs(n) == n.peers = {} /\ n.unconnectedAddrs = {}

\* the receive, and addPeersIfNecessary up to the choice of what to do
SupAddPeers ==
    /\ Running
    /\ sup.pc = "select"
    /\ node.addPeersCh = 1
    /\ env.adds < MaxAddPeers
    /\ env.adds > 0 => env.events < MaxEvents
    /\ env' = [env EXCEPT !.adds = @ + 1,
                          !.events = IF env.adds > 0 THEN @ + 1 ELSE @]
    /\ node' = [node EXCEPT !.addPeersCh = 0]
    /\ IF NoPeersOrUnconnectedAddrs(node)
       THEN \* n.Quit(); return ErrNodeHasNoPeersOrUnconnectedAddrs, on which
            \* selectLoop calls n.Quit() once more
            SupCallsNodeQuit("quitAgain")
       ELSE /\ nq' = nq
            /\ IF Cardinality(node.peers) >= minimumPeers
               THEN sup' = SupAt("select")
               ELSE IF /\ node.peers # {}
                       /\ Cardinality(node.unconnectedAddrs)
                              < minimumPeers - Cardinality(node.peers)
               THEN \E randomPeer \in node.peers :
                        sup' = [SupAt("getAddr") EXCEPT !.peer = randomPeer]
               ELSE sup' = SupAt("pop")
    /\ UNCHANGED <<peer, readLoop, msgChLoop, writeLoop, worker, mainPc, wire, hist>>

\* selectLoop on ErrNodeHasNoPeersOrUnconnectedAddrs: n.Quit()
SupQuitAgain ==
    /\ Running
    /\ sup.pc = "quitAgain"
    /\ SupCallsNodeQuit("select")
    /\ UNCHANGED <<node, peer, readLoop, msgChLoop, writeLoop, worker, mainPc, env, wire, hist>>

\* Peer.sendGetAddrMsg: p.mu.Lock(); p.getAddrMsgResponseCh = make(...)
SupGetAddrLock ==
    /\ Running
    /\ sup.pc = "getAddr"
    /\ peer[sup.peer].mu = "free"
    /\ peer' = [peer EXCEPT ![sup.peer].mu = "getaddr",
                            ![sup.peer].getAddrMsgResponseCh = hist.chans[sup.peer] + 1]
    /\ sup' = [sup EXCEPT !.pc = "getAddrWrite", !.ch = hist.chans[sup.peer] + 1]
    /\ hist' = [hist EXCEPT !.chans[sup.peer] = @ + 1]
    /\ UNCHANGED <<node, readLoop, msgChLoop, writeLoop, nq, worker, mainPc, env, wire>>

\* Peer.sendGetAddrMsg: p.write(getAddrMsgEncoded), unlock, return the channel
SupGetAddrWrite ==
    /\ Running
    /\ sup.pc = "getAddrWrite"
    /\ Len(peer[sup.peer].writeCh) < ChanCap
    /\ peer' = [peer EXCEPT ![sup.peer].writeCh = Append(@, GetAddrMsg),
                            ![sup.peer].mu = "free"]
    /\ sup' = [sup EXCEPT !.pc = "waitAddr"]
    /\ UNCHANGED <<node, readLoop, msgChLoop, writeLoop, nq, worker, mainPc, env, wire, hist>>

\* the time.After case if it quit the peer that did not answer
SupAddrTimeoutQuits ==
    /\ Running
    /\ sup.pc = "waitAddr"
    /\ sup' = SupAt("pop")
    /\ peer' = [peer EXCEPT ![sup.peer].HasQuit = TRUE]
    /\ node' = [node EXCEPT !.peers = @ \ {sup.peer}]
    /\ hist' = [hist EXCEPT !.timedOut = @ \cup {sup.peer}]
    /\ UNCHANGED <<readLoop, msgChLoop, writeLoop, nq, worker, mainPc, env, wire>>

\* case <-time.After(n.getAddrWaitTime): addresses = nil
SupAddrTimeout ==
    /\ Running
    /\ sup.pc = "waitAddr"
    /\ sup' = SupAt("pop")
    /\ hist' = [hist EXCEPT !.timedOut = @ \cup {sup.peer}]
    /\ UNCHANGED <<node, peer, readLoop, msgChLoop, writeLoop, nq, worker, mainPc, env, wire>>

\* addUnconnectedAddrToNode without the look-up in n.connectedAddrs
addUnconnectedAddrUnchecked(n, unconnectedAddr) ==
    [n EXCEPT !.unconnectedAddrs = @ \cup {unconnectedAddr}]

\* addUnconnectedAddrToNode
addUnconnectedAddrToNode(n, unconnectedAddr) ==
    IF unconnectedAddr \notin n.connectedAddrs
    THEN [n EXCEPT !.unconnectedAddrs = @ \cup {unconnectedAddr}]
    ELSE n

\* for _, address := range addresses { n.addUnconnectedAddrToNode(...) }
SupAddAddr ==
    /\ Running
    /\ sup.pc = "addAddrs"
    /\ IF sup.addrs = <<>>
       THEN /\ sup' = SupAt("pop")
            /\ node' = node
       ELSE /\ node' = addUnconnectedAddrToNode(node, Head(sup.addrs))
            /\ sup' = [sup EXCEPT !.addrs = Tail(@)]
    /\ UNCHANGED <<peer, readLoop, msgChLoop, writeLoop, nq, worker, mainPc, env, wire, hist>>

\* attemptAddingSomePeers: n.unconnectedAddrs.Pop() gives a; wg.Add(1); go
SupPop(a) ==
    /\ Running
    /\ sup.pc = "pop"
    /\ sup.count < minimumPeers * 10
    /\ a \in node.unconnectedAddrs
    /\ node' = [node EXCEPT !.unconnectedAddrs = @ \ {a}]
    /\ worker' = [worker EXCEPT ![a] = [pc |-> "dial", peer |-> NoPeer]]
    /\ sup' = [sup EXCEPT !.count = @ + 1]
    /\ UNCHANGED <<peer, readLoop, msgChLoop, writeLoop, nq, mainPc, env, wire, hist>>

\* attemptAddingSomePeers: the loop ends (Pop found nothing, or maxNewPeers)
SupPopEnd ==
    /\ Running
    /\ sup.pc = "pop"
    /\ sup.count = minimumPeers * 10 \/ node.unconnectedAddrs = {}
    /\ sup' = SupAt("wgWait")
    /\ UNCHANGED <<node, peer, readLoop, msgChLoop, writeLoop, nq, worker, mainPc, env, wire, hist>>

\* wg.Wait() returns; addPeersIfNecessary notifies when still below minimum
SupWgWait ==
    /\ Running
    /\ sup.pc = "wgWait"
    /\ \A a \in Addrs : worker[a].pc = "idle"
    /\ node' = IF Cardinality(node.peers) < minimumPeers
               THEN notifyThatPeersIsBelowMinPeers(node)
               ELSE node
    /\ sup' = SupAt("select")
    /\ UNCHANGED <<peer, readLoop, msgChLoop, writeLoop, nq, worker, mainPc, env, wire, hist>>

(***************************************************************************)
(* The goroutines of attemptAddingSomePeers: n.AddPeer(addr)               *)
(***************************************************************************)
\* PerformHandshake fails (dial error, timeout, bad handshake); wg.Done()
DialFail(a) ==
    /\ Running
    /\ worker[a].pc = "dial"
    /\ worker' = [worker EXCEPT ![a].pc = "idle"]
    /\ UNCHANGED <<node, peer, readLoop, msgChLoop, writeLoop, sup, nq, mainPc, env, wire, hist>>

\* PerformHandshake succeeds; NewPeer; addPeerToNode: n.peers.Set(p)
DialOk(a, p) ==
    /\ Running
    /\ worker[a].pc = "dial"
    /\ peer[p].state = "none"
    /\ \A q \in PeerIds : q < p => peer[q].state # "none"
    /\ peer' = [peer EXCEPT ![p] = NewPeer(a)]
    /\ node' = [node EXCEPT !.peers = @ \cup {p}]
    /\ hist' = [hist EXCEPT !.registered = @ \cup {p}]
    /\ worker' = [worker EXCEPT ![a] = [pc |-> "connected", peer |-> p]]
    /\ UNCHANGED <<readLoop, msgChLoop, writeLoop, sup, nq, mainPc, env, wire>>

\* addPeerToNode: n.connectedAddrs.Set(peerNode.tcpAddress)
WorkerSetConnected(a) ==
    /\ Running
    /\ worker[a].pc = "connected"
    /\ node' = [node EXCEPT !.connectedAddrs = @ \cup {a}]
    /\ worker' = [worker EXCEPT ![a].pc = "unconnected"]
    /\ UNCHANGED <<peer, readLoop, msgChLoop, writeLoop, sup, nq, mainPc, env, wire, hist>>

\* addPeerToNode: n.unconnectedAddrs.Delete(...); go p.Start(); wg.Done()
WorkerFinish(a) ==
    /\ Running
    /\ worker[a].pc = "unconnected"
    /\ LET p == worker[a].peer
       IN /\ peer' = [peer EXCEPT ![p].state = "started"]
          /\ readLoop' = [readLoop EXCEPT ![p].pc = "read"]
          /\ msgChLoop' = [msgChLoop EXCEPT ![p].pc = "select"]
          /\ writeLoop' = [writeLoop EXCEPT ![p].pc = "select"]
    /\ node' = [node EXCEPT !.unconnectedAddrs = @ \ {a}]
    /\ worker' = [worker EXCEPT ![a] = [pc |-> "idle", peer |-> NoPeer]]
    /\ UNCHANGED <<sup, nq, mainPc, env, wire, hist>>

(***************************************************************************)
(* main after "go node.Start()"                                            *)
(***************************************************************************)
\* case <-ctx.Done(): node.Quit()
MainSignal ==
    /\ Running
    /\ mainPc = "wait"
    /\ env.events < MaxEvents
    /\ env' = [env EXCEPT !.events = @ + 1]
    /\ mainPc' = "quit"
    /\ nq' = [nq EXCEPT !["main"].pc = "lock"]
    /\ UNCHANGED <<node, peer, readLoop, msgChLoop, writeLoop, sup, worker, wire, hist>>

\* case <-node.QuitCh in the select, or the <-node.QuitCh after node.Quit():
\* main returns and the process ends
MainExit ==
    /\ mainPc \in {"wait", "waitQuitCh"}
    /\ node.QuitCh
    /\ mainPc' = "exit"
    /\ UNCHANGED <<node, peer, readLoop, msgChLoop, writeLoop, sup, nq, worker, env, wire, hist>>

Next ==
    \/ \E p \in PeerIds : \E c \in Callers \cup {"reader"} :
           PeerQuitAgain(c, p) \/ PeerQuit(c, p)
    \/ \E p \in PeerIds :
           \/ RemovePeerConnectedAddr(p) \/ RemovePeerNotify(p)
           \/ PeerQuitCloseConn(p) \/ PeerQuitCloseQuitCh(p)
           \/ (\E m \in PingMsgs : ReadMessage(p, m))
           \/ (\E m \in AddrMsgs : ReadMessage(p, m))
           \/ (\E m \in InvMsgs : ReadMessage(p, m))
           \/ (\E m \in BlockMsgs : ReadMessage(p, m))
           \/ ReadError(p) \/ ReadSend(p)
           \/ MsgChLoopQuit(p) \/ MsgChLoopReceive(p)
           \/ handlePingMessage(p) \/ handleAddrMessage(p) \/ handleAddrMessageSend(p)
           \/ handleInvMessage(p) \/ handleBlockMessage(p)
           \/ WriteLoopQuit(p) \/ WriteLoopReceive(p) \/ WriteLoopWrite(p)
           \/ WriteLoopWriteFails(p)
    \/ \E c \in Callers :
           \/ NodeQuitLock(c) \/ (\E p \in PeerIds : NodeQuitNextPeer(c, p))
           \/ NodeQuitClose(c) \/ NodeQuitSaveBegin(c) \/ NodeQuitSaved(c)
    \/ SupStart \/ SupSelectQuit \/ SupTick \/ SupWrite \/ SupInv \/ SupBlock
    \/ SupAddPeers \/ SupQuitAgain \/ SupGetAddrLock \/ SupGetAddrWrite
    \/ SupAddrTimeout \/ SupAddAddr \/ (\E a \in Addrs : SupPop(a)) \/ SupPopEnd
    \/ SupWgWait
    \/ \E a \in Addrs :
           \/ DialFail(a) \/ (\E p \in PeerIds : DialOk(a, p))
           \/ WorkerSetConnected(a) \/ WorkerFinish(a)
    \/ MainSignal \/ MainExit

Spec == Init /\ [][Next]_vars

(***************************************************************************)
(* saveBlocksToDisk call by call, a process that ends in the middle of it, *)
(* and the next start of the program.  The temporary file is at            *)
(* /tmp/<name>, the target at <name> in the working directory; the two     *)
(* are different paths.                                                    *)
(***************************************************************************)
\* a transaction with witness data
TxW ==
    [Version |-> 2,
     TransactionInputs |-> <<[PreviousOutput |-> [Hash |-> 9, Index |-> 1],
                              SignatureScript |-> <<>>, Sequence |-> 3]>>,
     TransactionOutputs |-> <<[Value |-> 6, PkScript |-> <<83, 84>>]>>,
     TransactionWitnesses |-> <<[ComponentDataList |-> <<<<85>>, <<>>>>]>>,
     LockTime |-> 4]

\* the block sets a node holds when it quits: lists of blocks of different
\* hashes, the blocks without, with one and with two transactions
StoreBlockLists ==
    {<<>>, <<BlockA>>, <<BlockA, BlockB>>, <<BlockB, BlockA>>, <<BlockA2>>,
     <<Blk(ZeroHash, 1, 0, <<TxW>>)>>,
     <<Blk(ZeroHash, 1, 0, <<Tx1, TxW>>)>>,
     <<BlockA, Blk(GetBlockHash(BlockA), 2, 0, <<Tx1>>)>>,
     <<BlockA2, BlockB>>,
     <<BlockA2, Blk(GetBlockHash(BlockA), 2, 0, <<TxW>>), BlockC>>}

\* the file at the target path before the dump: none, or an earlier snapshot
StoreStartFiles == {NoFile, FileOf(Snapshot(<<BlockA>>)), FileOf(Snapshot(<<BlockC, BlockA>>))}

\* main is in node.Quit() after a signal: the only peer has quit, QuitCh is
\* closed, n.saveBlocksToDisk() is the next call
InitStore ==
    /\ \E blocks \in StoreBlockLists :
           node = [addBlocksToNode(NewNode, blocks) EXCEPT
                       !.HasQuit = TRUE, !.QuitCh = TRUE, !.mu = "main"]
    /\ peer = [p \in PeerIds |->
                  IF p = 1
                  THEN [NewPeer(1) EXCEPT !.state = "started", !.HasQuit = TRUE,
                                          !.QuitCh = TRUE, !.connClosed = TRUE]
                  ELSE NoSuchPeer]
    /\ readLoop = [p \in PeerIds |-> [pc |-> IF p = 1 THEN "done" ELSE "off", msg |-> NoMsg]]
    /\ msgChLoop = [p \in PeerIds |-> [pc |-> IF p = 1 THEN "done" ELSE "off", msg |-> NoMsg]]
    /\ writeLoop = [p \in PeerIds |-> [pc |-> IF p = 1 THEN "done" ELSE "off", bytes |-> NoMsg]]
    /\ sup = SupAt("select")
    /\ nq = [c \in Callers |-> IF c = "main" THEN [NoCall EXCEPT !.pc = "save"] ELSE NoCall]
    /\ worker = [a \in Addrs |-> [pc |-> "idle", peer |-> NoPeer]]
    /\ mainPc = "quit"
    /\ env \in {[events |-> 1, adds |-> 0, file |-> f, tmp |-> NoFile] : f \in StoreStartFiles}
    /\ wire = [p \in PeerIds |-> <<>>]
    /\ hist = [NoHist(env.file) EXCEPT !.registered = {1}, !.quits[1] = 1,
                                       !.onQuitting[1] = 1]

\* where a call of saveBlocksToDisk can be
DumpPcs == {"saving", "writeCount", "writeBlock"}

\* saveBlocksToDisk returns to Node.Quit, which logs the outcome, unlocks
\* n.mu and returns
SaveReturns(c) ==
    /\ node' = [node EXCEPT !.mu = "free"]
    /\ ReturnFromNodeQuit(c)

\* "if len(blocks) == 0 { return errors.New(...) }", else os.Create of the
\* temporary file, which truncates what is there
SaveCreate(c) ==
    /\ Running
    /\ nq[c].pc = "saving"
    /\ IF Len(nq[c].blocks) = 0
       THEN /\ SaveReturns(c)
            /\ hist' = [hist EXCEPT !.quitReturned = TRUE]
            /\ env' = env
       ELSE /\ env' = [env EXCEPT !.tmp = FileOf(<<>>)]
            /\ nq' = [nq EXCEPT ![c].pc = "writeCount"]
            /\ UNCHANGED <<node, sup, mainPc, hist>>
    /\ UNCHANGED <<peer, readLoop, msgChLoop, writeLoop, worker, wire>>

\* f.Write(blocksCountEncoded)
SaveWriteCount(c) ==
    /\ Running
    /\ nq[c].pc = "writeCount"
    /\ env' = [env EXCEPT !.tmp.data = @ \o VarIntEncode(Len(nq[c].blocks))]
    /\ nq' = [nq EXCEPT ![c].pc = "writeBlock", ![c].i = 1]
    /\ UNCHANGED <<node, peer, readLoop, msgChLoop, writeLoop, sup, worker, mainPc, wire, hist>>

\* one round of the loop: block.Encode() and f.Write(blockEncoded)
SaveWriteBlock(c) ==
    /\ Running
    /\ nq[c].pc = "writeBlock"
    /\ nq[c].i <= Len(nq[c].blocks)
    /\ env' = [env EXCEPT !.tmp.data = @ \o EncodeBlock(nq[c].blocks[nq[c].i])]
    /\ nq' = [nq EXCEPT ![c].i = @ + 1]
    /\ UNCHANGED <<node, peer, readLoop, msgChLoop, writeLoop, sup, worker, mainPc, wire, hist>>

\* the octets the next f.Write is called with
PendingWrite(c) ==
    IF nq[c].pc = "writeCount" THEN VarIntEncode(Len(nq[c].blocks))
    ELSE EncodeBlock(nq[c].blocks[nq[c].i])

\* a failing f.Write whose error is not looked at: the octets that were
\* written stay and the dump goes on
SaveWriteFailsUnchecked(c, k) ==
    /\ Running
    /\ \/ nq[c].pc = "writeCount"
       \/ nq[c].pc = "writeBlock" /\ nq[c].i <= Len(nq[c].blocks)
    /\ env' = [env EXCEPT !.tmp.data = @ \o SubSeq(PendingWrite(c), 1, k)]
    /\ nq' = [nq EXCEPT ![c].pc = "writeBlock",
                        ![c].i = IF nq[c].pc = "writeCount" THEN 1 ELSE @ + 1]
    /\ UNCHANGED <<node, peer, readLoop, msgChLoop, writeLoop, sup, worker, mainPc, wire, hist>>

\* f.Write returns an error after k octets reached the file:
\* "if err != nil { return err }", with nothing renamed
SaveWriteFails(c, k) ==
    /\ Running
    /\ \/ nq[c].pc = "writeCount"
       \/ nq[c].pc = "writeBlock" /\ nq[c].i <= Len(nq[c].blocks)
    /\ env' = [env EXCEPT !.tmp.data = @ \o SubSeq(PendingWrite(c), 1, k)]
    /\ SaveReturns(c)
    /\ hist' = [hist EXCEPT !.quitReturned = TRUE]
    /\ UNCHANGED <<peer, readLoop, msgChLoop, writeLoop, worker, wire>>

\* os.Create returns an error: nothing is written
SaveCreateFails(c) ==
    /\ Running
    /\ nq[c].pc = "saving"
    /\ Len(nq[c].blocks) > 0
    /\ SaveReturns(c)
    /\ hist' = [hist EXCEPT !.quitReturned = TRUE]
    /\ UNCHANGED <<peer, readLoop, msgChLoop, writeLoop, worker, env, wire>>

\* "return os.Rename(...)" after the loop: the temporary file becomes the
\* file at the target path, or the rename fails (the two paths on different
\* file systems) and both files stay as they are
SaveRename(c, ok) ==
    /\ Running
    /\ nq[c].pc = "writeBlock"
    /\ nq[c].i > Len(nq[c].blocks)
    /\ env' = IF ok THEN [env EXCEPT !.file = env.tmp, !.tmp = NoFile] ELSE env
    /\ SaveReturns(c)
    /\ hist' = [hist EXCEPT !.quitReturned = TRUE, !.renamed = ok]
    /\ UNCHANGED <<peer, readLoop, msgChLoop, writeLoop, worker, wire>>

\* the process is killed while a dump is under way
Crash ==
    /\ Running
    /\ \E c \in Callers : nq[c].pc \in DumpPcs
    /\ mainPc' = "exit"
    /\ UNCHANGED <<node, peer, readLoop, msgChLoop, writeLoop, sup, nq, worker, env, wire, hist>>

\* the program is started again after the process has ended: NewNode, and
\* n.readBlocksFromDisk() in Node.Start
Restart ==
    /\ mainPc = "exit"
    /\ hist.restored = "none"
    /\ node' = readBlocksFromDisk(NewNode, env.file).node
    /\ hist' = [hist EXCEPT !.restored = readBlocksFromDisk(NewNode, env.file).err]
    /\ nq' = [c \in Callers |-> NoCall]
    /\ sup' = SupAt("started")
    /\ mainPc' = "wait"
    /\ UNCHANGED <<peer, readLoop, msgChLoop, writeLoop, worker, env, wire>>

NextStore ==
    \/ \E c \in Callers :
           \/ NodeQuitSaveBegin(c) \/ SaveCreate(c) \/ SaveCreateFails(c)
           \/ SaveWriteCount(c) \/ SaveWriteBlock(c)
           \/ (\E k \in {0, 1} : SaveWriteFails(c, k))
           \/ (\E ok \in BOOLEAN : SaveRename(c, ok))
    \/ Crash \/ MainExit \/ Restart

SpecStore == InitStore /\ [][NextStore]_vars

\* C9: a block set of at least one block that was dumped at shutdown and
\* restored at the next start is the block set the node holds again: the
\* restore succeeds and yields the same blocks in the same order.
RestoreYieldsDumped ==
    (hist.renamed /\ hist.restored # "none")
        => (hist.restored = "nil" /\ node.blocks = hist.dumped)

\* C10: at every point of a dump, a crash or a failed write included, the
\* file at the target path is the one that was there when the process
\* started (none, or the previous snapshot) until the rename, which only
\* takes place after the count and every block were written, and the
\* complete new snapshot from then on.
TargetNeverPartial ==
    IF hist.renamed
    THEN env.file = FileOf(Snapshot(hist.dumped))
    ELSE env.file = hist.startFile

\* a dump that ended, by a failed write or by the end of the process, with
\* the count and only some octets of the blocks in the temporary file
DumpEndedMidWrite ==
    /\ hist.dumps = 1
    /\ ~hist.renamed
    /\ \E c \in Callers : nq[c].pc \in {"idle", "writeBlock"}
    /\ mainPc \in {"exit", "waitQuitCh"}
    /\ env.tmp.exists
    /\ Len(env.tmp.data) > 1
    /\ env.tmp.data # Snapshot(hist.dumped)

(***************************************************************************)
(* PerformHandshake and Node.AddPeer, step by step, in the goroutine that  *)
(* dials address a.  env.conn[a] is the transport connection: whether it   *)
(* is open, the commands written to it and the messages read from it.      *)
(***************************************************************************)
\* 0xD9B4BEF9 as the header carries it, little-endian
MainnetMagicValue == <<249, 190, 180, 217>>
WtxidRelayVersion == 70016

\* the protocol versions and magic values a remote end is taken to send
RemoteVersions == {ProtocolVersion - 1, ProtocolVersion, WtxidRelayVersion, WtxidRelayVersion + 1}
RemoteMagics == {MainnetMagicValue, <<11, 17, 9, 7>>}

\* the messages DecodeMessage can return during a handshake: header magic,
\* command and, for a version message, the protocol version of the payload
HandshakeMsgs ==
    {[Command |-> "version", Magic |-> g, Version |-> v] :
        g \in RemoteMagics, v \in RemoteVersions}
    \cup {[Command |-> c, Magic |-> g, Version |-> 0] :
            c \in {"verack", "wtxidrelay", "sendaddrv2", "ping"}, g \in RemoteMagics}

NoConn == [state |-> "none", sent |-> <<>>, recv |-> <<>>]

\* the goroutine of attemptAddingSomePeers about to call n.AddPeer
Dialling == [pc |-> "dial", peer |-> NoPeer, version |-> 0, err |-> "none"]

\* exchangeVersionMessage after DecodeMessage, with ">=" for ">"
exchangeVersionMessageStrict(msg) ==
    IF msg.Command # "version" THEN "invalid Command"
    ELSE IF msg.Magic # MainnetMagicValue THEN "invalid Magic"
    ELSE IF msg.Version >= ProtocolVersion THEN "protocol version not supported"
    ELSE "none"

\* exchangeVersionMessage after DecodeMessage: the error it returns
exchangeVersionMessage(msg) ==
    IF msg.Command # "version" THEN "invalid Command"
    ELSE IF msg.Magic # MainnetMagicValue THEN "invalid Magic"
    ELSE IF msg.Version > ProtocolVersion THEN "protocol version not supported"
    ELSE "none"

\* exchangeWtxidrelayMessage after DecodeMessage: the error it returns
exchangeWtxidrelayMessage(msg) ==
    IF msg.Command # "wtxidrelay" THEN "invalid Command"
    ELSE IF msg.Magic # MainnetMagicValue THEN "invalid Magic"
    ELSE "none"

\* exchangeVerackMessage after its first DecodeMessage: "again" when it
\* reads one more message after a sendaddrv2, else the error it returns
exchangeVerackMessage(msg, receivedVersionNumber) ==
    IF receivedVersionNumber >= WtxidRelayVersion /\ msg.Magic # MainnetMagicValue
    THEN "invalid Magic"
    ELSE IF receivedVersionNumber >= WtxidRelayVersion /\ msg.Command = "sendaddrv2"
    THEN "again"
    ELSE IF msg.Command # "verack" THEN "invalid Command"
    ELSE IF msg.Magic # MainnetMagicValue THEN "invalid Magic"
    ELSE "none"

\* exchangeVerackMessage after its second DecodeMessage
exchangeVerackMessageAgain(msg) ==
    IF msg.Command # "verack" THEN "invalid Command"
    ELSE IF msg.Magic # MainnetMagicValue THEN "invalid Magic"
    ELSE "none"

\* PerformHandshake or one of its exchanges returns err: nothing else is done
\* with conn
HandshakeFails(a, err) ==
    worker' = [worker EXCEPT ![a].pc = "failed", ![a].err = err]

InitHandshake ==
    /\ node = [NewNode EXCEPT !.peers = {1}, !.connectedAddrs = {1}]
    /\ peer = [p \in PeerIds |->
                 IF p = 1 THEN [NewPeer(1) EXCEPT !.state = "started"] ELSE NoSuchPeer]
    /\ readLoop = [p \in PeerIds |-> [pc |-> IF p = 1 THEN "read" ELSE "off", msg |-> NoMsg]]
    /\ msgChLoop = [p \in PeerIds |-> [pc |-> IF p = 1 THEN "select" ELSE "off", msg |-> NoMsg]]
    /\ writeLoop = [p \in PeerIds |-> [pc |-> IF p = 1 THEN "select" ELSE "off", bytes |-> NoMsg]]
    /\ sup = SupAt("wgWait")
    /\ nq = [c \in Callers |-> NoCall]
    /\ \E d \in Addrs :
           worker = [a \in Addrs |->
                        IF a = d THEN Dialling
                        ELSE [Dialling EXCEPT !.pc = "idle"]]
    /\ mainPc = "wait"
    /\ env = [events |-> 0, adds |-> 1, file |-> NoFile, tmp |-> NoFile,
              conn |-> [a \in Addrs |-> NoConn]]
    /\ wire = [p \in PeerIds |-> <<>>]
    /\ hist = [NoHist(env.file) EXCEPT !.registered = {1}]

\* net.DialTimeout
HsDial(a, ok) ==
    /\ worker[a].pc = "dial"
    /\ IF ok
       THEN /\ env' = [env EXCEPT !.conn[a].state = "open"]
            /\ worker' = [worker EXCEPT ![a].pc = "sendVersion"]
       ELSE /\ env' = env
            /\ HandshakeFails(a, "dial")
    /\ UNCHANGED <<node, peer, readLoop, msgChLoop, writeLoop, sup, nq, mainPc, wire, hist>>

\* what the handshake writes at each of its sends, and where it reads next
HandshakeSends ==
    [sendVersion |-> [cmd |-> "version", next |-> "recvVersion"],
     sendWtxidrelay |-> [cmd |-> "wtxidrelay", next |-> "recvWtxidrelay"],
     sendVerack |-> [cmd |-> "verack", next |-> "recvVerack"]]

\* conn.Write(encoded) of the version, wtxidrelay or verack message
HsWrite(a, ok) ==
    /\ worker[a].pc \in DOMAIN HandshakeSends
    /\ IF ok
       THEN /\ env' = [env EXCEPT !.conn[a].sent = Append(@, HandshakeSends[worker[a].pc].cmd)]
            /\ worker' = [worker EXCEPT ![a].pc = HandshakeSends[worker[a].pc].next]
       ELSE /\ env' = env
            /\ HandshakeFails(a, "io")
    /\ UNCHANGED <<node, peer, readLoop, msgChLoop, writeLoop, sup, nq, mainPc, wire, hist>>

\* message.DecodeMessage(conn) returns an error
HsReadFails(a) ==
    /\ worker[a].pc \in {"recvVersion", "recvWtxidrelay", "recvVerack", "recvVerackAgain"}
    /\ HandshakeFails(a, "io")
    /\ UNCHANGED <<node, peer, readLoop, msgChLoop, writeLoop, sup, nq, mainPc, env, wire, hist>>

\* the step of PerformHandshake after an exchange has returned err
AfterExchange(a, err, version, next) ==
    IF err = "none"
    THEN worker' = [worker EXCEPT ![a].pc = next, ![a].version = version]
    ELSE HandshakeFails(a, err)

\* message.DecodeMessage(conn) returns msg, and what the exchange that read
\* it and PerformHandshake do with it up to the next conn.Write
HsRead(a, msg) ==
    /\ worker[a].pc \in {"recvVersion", "recvWtxidrelay", "recvVerack", "recvVerackAgain"}
    /\ env' = [env EXCEPT !.conn[a].recv = Append(@, msg)]
    /\ CASE worker[a].pc = "recvVersion" ->
              AfterExchange(a, exchangeVersionMessage(msg), msg.Version,
                            IF msg.Version >= WtxidRelayVersion
                            THEN "sendWtxidrelay" ELSE "sendVerack")
         [] worker[a].pc = "recvWtxidrelay" ->
              AfterExchange(a, exchangeWtxidrelayMessage(msg), worker[a].version, "sendVerack")
         [] worker[a].pc = "recvVerack" ->
              IF exchangeVerackMessage(msg, worker[a].version) = "again"
              THEN worker' = [worker EXCEPT ![a].pc = "recvVerackAgain"]
              ELSE AfterExchange(a, exchangeVerackMessage(msg, worker[a].version),
                                 worker[a].version, "handshaken")
         [] worker[a].pc = "recvVerackAgain" ->
              AfterExchange(a, exchangeVerackMessageAgain(msg), worker[a].version,
                            "handshaken")
    /\ UNCHANGED <<node, peer, readLoop, msgChLoop, writeLoop, sup, nq, mainPc, wire, hist>>

\* Node.AddPeer after PerformHandshake has returned conn: NewPeer, and
\* addPeerToNode up to n.peers.Set(p)
HsAddPeer(a, p) ==
    /\ worker[a].pc = "handshaken"
    /\ peer[p].state = "none"
    /\ \A q \in PeerIds : q < p => peer[q].state # "none"
    /\ peer' = [peer EXCEPT ![p] = NewPeer(a)]
    /\ node' = [node EXCEPT !.peers = @ \cup {p}]
    /\ hist' = [hist EXCEPT !.registered = @ \cup {p}]
    /\ worker' = [worker EXCEPT ![a].pc = "connected", ![a].peer = p]
    /\ UNCHANGED <<readLoop, msgChLoop, writeLoop, sup, nq, mainPc, env, wire>>

\* Node.AddPeer returns the error of PerformHandshake; the goroutine logs it
\* and ends (wg.Done)
HsAddPeerFails(a) ==
    /\ worker[a].pc = "failed"
    /\ worker' = [worker EXCEPT ![a].pc = "idle"]
    /\ UNCHANGED <<node, peer, readLoop, msgChLoop, writeLoop, sup, nq, mainPc, env, wire, hist>>

NextHandshake ==
    \E a \in Addrs :
        \/ \E ok \in BOOLEAN : HsDial(a, ok) \/ HsWrite(a, ok)
        \/ HsReadFails(a)
        \/ \E msg \in HandshakeMsgs : HsRead(a, msg)
        \/ \E p \in PeerIds : HsAddPeer(a, p)
        \/ HsAddPeerFails(a)
        \/ WorkerSetConnected(a)

SpecHandshake == InitHandshake /\ [][NextHandshake]_vars

\* the steps of the dialling goroutine that do not wait for the remote end:
\* net.DialTimeout returns within its timeout, a write of a handshake
\* message returns, and the goroutine goes on after PerformHandshake
HsProgramStep ==
    \E a \in Addrs :
        \/ \E ok \in BOOLEAN : HsDial(a, ok) \/ HsWrite(a, ok)
        \/ \E p \in PeerIds : HsAddPeer(a, p)
        \/ HsAddPeerFails(a)
        \/ WorkerSetConnected(a)

\* the handshake with a goroutine that is scheduled; the remote end may
\* send, close the connection, or do nothing
FairSpecHandshake == SpecHandshake /\ WF_vars(HsProgramStep)

(***************************************************************************)
(* Block payloads through BlockPayload.Encode and decodeBlockPayload, as   *)
(* DecodeMessage calls it on the payload octets of a block message.        *)
(***************************************************************************)
\* a transaction without inputs and without witnesses, with one output
Tx0 ==
    [Version |-> 1, TransactionInputs |-> <<>>,
     TransactionOutputs |-> <<[Value |-> 5, PkScript |-> <<82>>]>>,
     TransactionWitnesses |-> <<>>, LockTime |-> 0]

CodecTxLists == {<<>>, <<Tx1>>, <<TxW>>, <<Tx0>>, <<Tx1, TxW>>, <<TxW, Tx1>>}

\* the block payloads that are encoded and decoded
CodecBlocks ==
    {[Version |-> v, PrevBlock |-> prev, MerkleRoot |-> m, Timestamp |-> ts,
      Bits |-> bits, Nonce |-> nonce, Transactions |-> txs] :
        v \in 1..NVersion, prev \in {ZeroHash, GetBlockHash(BlockA)},
        m \in 0..(NMerkle - 1), ts \in 0..(NTimestamp - 1), bits \in 0..(NBits - 1),
        nonce \in 0..(NNonce - 1), txs \in CodecTxLists}

InitCodec ==
    /\ node = NewNode
    /\ peer = [p \in PeerIds |-> NoSuchPeer]
    /\ readLoop = [p \in PeerIds |-> [pc |-> "off", msg |-> NoMsg]]
    /\ msgChLoop = [p \in PeerIds |-> [pc |-> "off", msg |-> NoMsg]]
    /\ writeLoop = [p \in PeerIds |-> [pc |-> "off", bytes |-> NoMsg]]
    /\ sup = SupAt("start")
    /\ nq = [c \in Callers |-> NoCall]
    /\ worker = [a \in Addrs |-> [pc |-> "idle", peer |-> NoPeer]]
    /\ mainPc = "wait"
    /\ \E b \in CodecBlocks :
           env = [events |-> 0, adds |-> 0, file |-> NoFile, tmp |-> NoFile,
                  step |-> "new", block |-> b, octets |-> <<>>, decoded |-> Failed]
    /\ wire = [p \in PeerIds |-> <<>>]
    /\ hist = NoHist(NoFile)

\* BlockPayload.Encode
CodecEncode ==
    /\ env.step = "new"
    /\ env' = [env EXCEPT !.step = "encoded", !.octets = EncodeBlock(env.block)]
    /\ UNCHANGED <<node, peer, readLoop, msgChLoop, writeLoop, sup, nq, worker, mainPc,
                   wire, hist>>

\* decodeBlockPayload(bytes.NewReader(encodedPayload))
CodecDecode ==
    /\ env.step = "encoded"
    /\ env' = [env EXCEPT !.step = "decoded", !.decoded = DecodeBlock(env.octets, 0)]
    /\ UNCHANGED <<node, peer, readLoop, msgChLoop, writeLoop, sup, nq, worker, mainPc,
                   wire, hist>>

NextCodec == CodecEncode \/ CodecDecode

SpecCodec == InitCodec /\ [][NextCodec]_vars

(***************************************************************************)
(* The reader of one peer on the octets of its connection: what the remote *)
(* end sends is a sequence of frames, the reader decodes one message at a  *)
(* time from the octets that are left.                                     *)
(***************************************************************************)
commandNameLength == 12
checksumLength == 4
headerLength == 4 + commandNameLength + 4 + checksumLength
maxPayloadSize == 33554432

\* a CommandName: the ASCII octets of the name, filled up with zero octets
CommandName(name) == name \o [i \in 1..(commandNameLength - Len(name)) |-> 0]

\* the command names of message.go
CommandNames ==
    [version |-> <<118, 101, 114, 115, 105, 111, 110>>,
     verack |-> <<118, 101, 114, 97, 99, 107>>,
     wtxidrelay |-> <<119, 116, 120, 105, 100, 114, 101, 108, 97, 121>>,
     sendaddrv2 |-> <<115, 101, 110, 100, 97, 100, 100, 114, 118, 50>>,
     getaddr |-> <<103, 101, 116, 97, 100, 100, 114>>,
     addr |-> <<97, 100, 100, 114>>,
     getblocks |-> <<103, 101, 116, 98, 108, 111, 99, 107, 115>>,
     inv |-> <<105, 110, 118>>,
     getdata |-> <<103, 101, 116, 100, 97, 116, 97>>,
     block |-> <<98, 108, 111, 99, 107>>,
     tx |-> <<116, 120>>,
     ping |-> <<112, 105, 110, 103>>,
     pong |-> <<112, 111, 110, 103>>]

RECURSIVE SumOf(_)
SumOf(octets) == IF octets = <<>> THEN 0 ELSE Head(octets) + SumOf(Tail(octets))

\* checksum: four octets that depend on the payload only; they stand for
\* the first four octets of SHA256(SHA256(payload)), which are 5d f6 e0 e2 for
\* the empty payload
checksum(encodedPayload) ==
    <<(93 + SumOf(encodedPayload)) % 256, 246, 224, 226>>

\* MessageHeader.encode followed by the payload, for a header with the given
\* Length and Checksum fields
FrameOctets(command, length, sum, encodedPayload) ==
    MainnetMagicValue \o command \o length \o sum \o encodedPayload

\* Message.Encode
EncodeMessage(command, encodedPayload) ==
    FrameOctets(command, LittleEndian(Len(encodedPayload), 4), checksum(encodedPayload),
                encodedPayload)

\* decodeMessageHeader: four reads of 4, 12, 4 and 4 octets
decodeMessageHeader(s) ==
    IF Len(s) < headerLength THEN Failed
    ELSE Decoded([Magic |-> SubSeq(s, 1, 4),
                  Command |-> SubSeq(s, 5, 4 + commandNameLength),
                  Length |-> FromLittleEndian(SubSeq(s, 5 + commandNameLength,
                                                     8 + commandNameLength)),
                  Checksum |-> SubSeq(s, 9 + commandNameLength, headerLength)],
                 headerLength)

\* what DecodeMessage returns: a message, ErrUnknownCommandName, or another
\* error; pos is the number of octets it has taken from the connection
DecodeErr == [kind |-> "err", msg |-> NoMsg, pos |-> 0]
DecodeUnknown(pos) == [kind |-> "unknown", msg |-> NoMsg, pos |-> pos]
DecodeMsg(m, pos) == [kind |-> "msg", msg |-> m, pos |-> pos]

\* the switch of DecodeMessage on header.Command, on the payload octets.  The
\* payloads of ping, pong and of the four commands without payload are
\* decoded; of the other known commands only the command is kept.
decodePayload(command, encodedPayload, pos) ==
    IF \E n \in {"verack", "wtxidrelay", "sendaddrv2", "getaddr"} :
           command = CommandName(CommandNames[n])
    THEN IF Len(encodedPayload) # 0
         THEN DecodeErr
         ELSE DecodeMsg([Command |-> CHOOSE n \in DOMAIN CommandNames :
                                        command = CommandName(CommandNames[n])], pos)
    ELSE IF \E n \in {"ping", "pong"} : command = CommandName(CommandNames[n])
    THEN IF Len(encodedPayload) < 8
         THEN DecodeErr
         ELSE DecodeMsg([Command |-> CHOOSE n \in DOMAIN CommandNames :
                                        command = CommandName(CommandNames[n]),
                         Nonce |-> FromLittleEndian(SubSeq(encodedPayload, 1, 8))], pos)
    ELSE IF \E n \in DOMAIN CommandNames : command = CommandName(CommandNames[n])
    THEN DecodeMsg([Command |-> CHOOSE n \in DOMAIN CommandNames :
                                   command = CommandName(CommandNames[n])], pos)
    ELSE DecodeUnknown(pos)

\* DecodeMessage if it looked at the command before it read the payload
DecodeMessageEarly(s) ==
    LET header == decodeMessageHeader(s)
    IN IF header.err THEN DecodeErr
       ELSE IF header.val.Length > maxPayloadSize THEN DecodeErr
       ELSE IF ~\E n \in DOMAIN CommandNames :
                    header.val.Command = CommandName(CommandNames[n])
       THEN DecodeUnknown(header.pos)
       ELSE LET encodedPayload == ReadFull(s, header.pos, header.val.Length)
            IN IF encodedPayload.err THEN DecodeErr
               ELSE IF header.val.Checksum # checksum(encodedPayload.val) THEN DecodeErr
               ELSE decodePayload(header.val.Command, encodedPayload.val,
                                  encodedPayload.pos)

\* DecodeMessage on the octets s that are left on the connection
DecodeMessage(s) ==
    LET header == decodeMessageHeader(s)
    IN IF header.err THEN DecodeErr
       ELSE IF header.val.Length > maxPayloadSize THEN DecodeErr
       ELSE LET encodedPayload == ReadFull(s, header.pos, header.val.Length)
            IN IF encodedPayload.err THEN DecodeErr
               ELSE IF header.val.Checksum # checksum(encodedPayload.val) THEN DecodeErr
               ELSE decodePayload(header.val.Command, encodedPayload.val,
                                  encodedPayload.pos)

\* a command name that message.go does not know
FooCommand == CommandName(<<102, 111, 111>>)

\* the frames of the remote end.  class says what the frame is: "known" (a
\* well-framed message of a known command, with the message it carries),
\* "unknown" (a well-framed message of an unknown command), "bad" (a frame
\* whose decoding fails with another error) and "cut" (a frame the remote
\* end stops in the middle of, so only the last of a connection)
ReaderFrames ==
    {[class |-> "known", msg |-> [Command |-> "ping", Nonce |-> 100],
      octets |-> EncodeMessage(CommandName(CommandNames.ping), LittleEndian(100, 8))],
     [class |-> "known", msg |-> [Command |-> "verack"],
      octets |-> EncodeMessage(CommandName(CommandNames.verack), <<>>)],
     [class |-> "unknown", msg |-> NoMsg,
      octets |-> EncodeMessage(FooCommand, <<>>)],
     [class |-> "unknown", msg |-> NoMsg,
      octets |-> EncodeMessage(FooCommand, <<1, 2, 3>>)],
     [class |-> "bad", msg |-> NoMsg,
      octets |-> FrameOctets(FooCommand, LittleEndian(2, 4), checksum(<<>>), <<1, 2>>)],
     [class |-> "bad", msg |-> NoMsg,
      octets |-> EncodeMessage(CommandName(CommandNames.verack), <<1>>)],
     [class |-> "bad", msg |-> NoMsg,
      octets |-> EncodeMessage(CommandName(CommandNames.ping), <<100, 0, 0, 0>>)],
     [class |-> "bad", msg |-> NoMsg,
      octets |-> FrameOctets(FooCommand, <<0, 0, 0, 3>>, checksum(<<>>), <<>>)],
     [class |-> "cut", msg |-> NoMsg,
      octets |-> SubSeq(EncodeMessage(FooCommand, <<1, 2, 3>>), 1, headerLength + 1)]}

MaxFrames == 3

\* what a remote end sends on one connection
ReaderScripts ==
    {fs \in UNION {[1..n -> ReaderFrames] : n \in 1..MaxFrames} :
        \A i \in 1..(Len(fs) - 1) : fs[i].class # "cut"}

RECURSIVE OctetsOf(_)
OctetsOf(frames) ==
    IF frames = <<>> THEN <<>> ELSE Head(frames).octets \o OctetsOf(Tail(frames))

\* peer 1 is started on a connection on which the remote end sends a script
InitReader ==
    /\ node = [NewNode EXCEPT !.peers = {1}, !.connectedAddrs = {1}]
    /\ peer = [p \in PeerIds |->
                 IF p = 1 THEN [NewPeer(1) EXCEPT !.state = "started"] ELSE NoSuchPeer]
    /\ readLoop = [p \in PeerIds |-> [pc |-> IF p = 1 THEN "read" ELSE "off", msg |-> NoMsg]]
    /\ msgChLoop = [p \in PeerIds |-> [pc |-> IF p = 1 THEN "select" ELSE "off", msg |-> NoMsg]]
    /\ writeLoop = [p \in PeerIds |-> [pc |-> IF p = 1 THEN "select" ELSE "off", bytes |-> NoMsg]]
    /\ sup = SupAt("select")
    /\ nq = [c \in Callers |-> NoCall]
    /\ worker = [a \in Addrs |-> [pc |-> "idle", peer |-> NoPeer]]
    /\ mainPc = "wait"
    /\ \E fs \in ReaderScripts :
           env = [events |-> 0, adds |-> 0, file |-> NoFile, tmp |-> NoFile,
                  frames |-> fs, stream |-> OctetsOf(fs), done |-> 0]
    /\ wire = [p \in PeerIds |-> <<>>]
    /\ hist = [NoHist(NoFile) EXCEPT !.registered = {1}]

\* readLoop: msg, err := message.DecodeMessage(p.conn) on a connection that
\* has octets left; ErrUnknownCommandName: continue; another error: p.Quit()
RdDecode(p) ==
    /\ readLoop[p].pc = "read"
    /\ env.stream # <<>>
    /\ LET r == DecodeMessage(env.stream)
       IN /\ env' = [env EXCEPT !.done = @ + 1,
                                !.stream = SubSeq(@, r.pos + 1, Len(@))]
          /\ readLoop' = [readLoop EXCEPT ![p] =
                            IF r.kind = "msg" THEN [pc |-> "send", msg |-> r.msg]
                            ELSE IF r.kind = "unknown" THEN [pc |-> "read", msg |-> NoMsg]
                            ELSE [pc |-> "quit", msg |-> NoMsg]]
          /\ hist' = IF r.kind = "msg"
                     THEN [hist EXCEPT !.heard = @ \cup {p}, !.received[p] = Append(@, r.msg)]
                     ELSE [hist EXCEPT !.heard = @ \cup {p}]
    /\ UNCHANGED <<node, peer, msgChLoop, writeLoop, sup, nq, worker, mainPc, wire>>

\* readLoop: DecodeMessage on a connection the remote end has closed after
\* its last frame: io.EOF, p.Quit()
RdEOF(p) ==
    /\ readLoop[p].pc = "read"
    /\ env.stream = <<>>
    /\ readLoop' = [readLoop EXCEPT ![p].pc = "quit"]
    /\ UNCHANGED <<node, peer, msgChLoop, writeLoop, sup, nq, worker, mainPc, env, wire, hist>>

\* msgChLoop: case msg := <-p.msgCh, the message is handled and dropped
RdTake(p) ==
    /\ msgChLoop[p].pc = "select"
    /\ peer[p].msgCh # <<>>
    /\ peer' = [peer EXCEPT ![p].msgCh = Tail(@)]
    /\ UNCHANGED <<node, readLoop, msgChLoop, writeLoop, sup, nq, worker, mainPc, env, wire, hist>>

\* readLoop: p.Quit(); return, with Quit in one step
RdQuit(p) ==
    /\ readLoop[p].pc = "quit"
    /\ peer' = [peer EXCEPT ![p].HasQuit = TRUE, ![p].QuitCh = TRUE,
                            ![p].connClosed = TRUE]
    /\ node' = [node EXCEPT !.peers = @ \ {p}, !.connectedAddrs = @ \ {peer[p].tcpAddress}]
    /\ readLoop' = [readLoop EXCEPT ![p].pc = "done"]
    /\ msgChLoop' = [msgChLoop EXCEPT ![p].pc = "done"]
    /\ writeLoop' = [writeLoop EXCEPT ![p].pc = "done"]
    /\ hist' = [hist EXCEPT !.quits[p] = @ + 1, !.onQuitting[p] = @ + 1]
    /\ UNCHANGED <<sup, nq, worker, mainPc, env, wire>>

NextReader ==
    \E p \in {1} : RdDecode(p) \/ ReadSend(p) \/ RdTake(p) \/ RdEOF(p) \/ RdQuit(p)

SpecReader == InitReader /\ [][NextReader]_vars

(***************************************************************************)
(* Properties of the peer actor                                            *)
(***************************************************************************)
\* C1: whatever Quit calls reach a peer (its reader after a read error, the
\* Node.Quit of the supervisor or of main, one after the other or at the same
\* time), its on-quit callback has run exactly once when the quit flag is
\* true and not at all before.
OnQuittingExactlyOnce ==
    \A p \in PeerIds : hist.onQuitting[p] = IF peer[p].HasQuit THEN 1 ELSE 0

\* a peer on which Quit took the lock twice and whose callback ran once
QuitTwiceCallbackOnce ==
    \E p \in PeerIds : hist.quits[p] >= 2 /\ hist.onQuitting[p] = 1

\* the inv and block events of peer p in the supervisor's channels
EventsOf(n, p) ==
    Len(SelectSeq(n.invMsgCh, LAMBDA e : e.Sender = p))
        + Len(SelectSeq(n.blockMsgCh, LAMBDA e : e.Sender = p))

\* C2: once the quit flag of a peer is true, no step puts an inv or block
\* event of that peer into the supervisor's channels.
NoForwardAfterQuit ==
    [][\A p \in PeerIds : peer[p].HasQuit => EventsOf(node', p) <= EventsOf(node, p)]_vars

\* C3: once the quit flag of a peer is true, no step writes to its transport.
NoWriteAfterQuit ==
    [][\A p \in PeerIds : peer[p].HasQuit => wire'[p] = wire[p]]_vars

(***************************************************************************)
(* Properties of the node                                                  *)
(***************************************************************************)
\* C4: every block of the block set has the zero hash as previous-block
\* hash, or the hash of a block of the set.
ChainClosure ==
    \A i \in 1..Len(node.blocks) :
        \/ node.blocks[i].PrevBlock = ZeroHash
        \/ \E j \in 1..Len(node.blocks) :
               GetBlockHash(node.blocks[j]) = node.blocks[i].PrevBlock

\* C5: the address of a peer of the live-peer map is not in the
\* unconnected-address map.
LiveAddrNotUnconnected ==
    \A p \in node.peers : peer[p].tcpAddress \notin node.unconnectedAddrs

\* a dial worker has put its peer into the live-peer map while an address
\* taken from an addr reply is still in the unconnected-address map
DialedPeerLiveWithUnconnected ==
    \E a \in Addrs : worker[a].peer \in node.peers /\ node.unconnectedAddrs # {}

\* C6: no two entries of the block list have the same hash, and the hashes
\* of the listed blocks are the hash index.
BlockHashesUnique ==
    /\ \A i, j \in 1..Len(node.blocks) :
           i # j => GetBlockHash(node.blocks[i]) # GetBlockHash(node.blocks[j])
    /\ {GetBlockHash(node.blocks[i]) : i \in 1..Len(node.blocks)} = node.blockHashes

\* a block event whose hash was in the index has been handled, on a block
\* set that holds blocks
DuplicateDropped == hist.duplicates > 0 /\ Len(node.blocks) > 0

\* C7: after Node.Quit has returned, every peer ever registered has quit and
\* the live-peer set is empty.
AllPeersQuitAfterNodeQuit ==
    hist.quitReturned =>
        /\ node.peers = {}
        /\ \A p \in hist.registered : peer[p].HasQuit

\* C8: the dump is started at most once, exactly once by the time Node.Quit
\* has returned, and every registered peer had quit when it started.
DumpOnceAfterPeersQuit ==
    /\ hist.dumps <= 1
    /\ hist.quitReturned => hist.dumps = 1
    /\ hist.unquitAtDump = {}

(***************************************************************************)
(* Properties of the address request and of termination                    *)
(***************************************************************************)
\* C11: when the peer that was asked for addresses has not answered before
\* the getaddr wait elapsed, it has quit by the time the supervisor is back
\* at its select.
GetAddrTimeoutQuitsPeer ==
    \A p \in hist.timedOut : sup.pc = "select" => peer[p].HasQuit

\* C12: while an address request on a peer is in flight (its slot holds a
\* channel), no step puts another channel into the slot: the slot stays as
\* it is or is cleared by the answer.
GetAddrSingleFlight ==
    [][\A p \in PeerIds :
          peer[p].getAddrMsgResponseCh # NoChan =>
              peer'[p].getAddrMsgResponseCh \in {NoChan, peer[p].getAddrMsgResponseCh}]_vars

\* C13: the step that ends the termination of a peer with an address
\* request in flight leaves the address-reply slot cleared.
QuitClearsGetAddrSlot ==
    [][\A p \in PeerIds :
          (peer[p].getAddrMsgResponseCh # NoChan /\ ~peer[p].QuitCh /\ peer'[p].QuitCh)
              => peer'[p].getAddrMsgResponseCh = NoChan]_vars

\* C15: when a transport write of a peer's writer has failed and the writer
\* has gone on, the peer has quit.
WriteFailureQuitsPeer ==
    \A p \in hist.writeFailed : writeLoop[p].pc # "write" => peer[p].HasQuit

\* The dispatcher of p holds p.mu in handleAddrMessage and waits in
\* "p.getAddrMsgResponseCh <- ..." on the unbuffered channel while the
\* supervisor is not in the select that receives from that channel.  The
\* supervisor comes to that select only through sendGetAddrMsg, which locks
\* p.mu first, so the dispatcher waits, and holds p.mu, for ever.
AddrSendAbandoned(p) ==
    /\ msgChLoop[p].pc = "addrSend"
    /\ ~(sup.pc = "waitAddr" /\ sup.peer = p /\ sup.ch = peer[p].getAddrMsgResponseCh)

\* C14: a peer whose reader has found the connection closed quits at some
\* time (quit flag true, callback run, QuitCh closed): the p.Quit() of its
\* reader is never left waiting for a p.mu that is held for ever.
RemoteCloseQuitsPeer ==
    \A p \in PeerIds :
        (readLoop[p].pc = "quit" /\ ~peer[p].HasQuit) => ~AddrSendAbandoned(p)

\* C16: a call of Node.Quit returns at some time: the peer.Quit() it makes
\* on a peer is never left waiting for a p.mu that is held for ever.
NodeQuitReturns ==
    \A c \in Callers :
        nq[c].pc = "peerQuit" => ~AddrSendAbandoned(nq[c].cur)

\* C17: main returns only after the dump of Node.Quit has ended, whether
\* the quit came from a signal or from the node itself.
MainReturnsAfterDump ==
    mainPc = "exit" => hist.quitReturned

\* The writer of p has returned and p.writeCh is full: a "p.writeCh <- bytes"
\* waits for ever.
WriteAbandoned(p) ==
    writeLoop[p].pc = "done" /\ Len(peer[p].writeCh) = ChanCap

\* C18: the supervisor handles an inv or block event whose sender has quit
\* and has been removed without stalling: the getdata it writes to the
\* sender is never a send that waits for ever.
LateEventDoesNotStall ==
    (sup.pc = "write" /\ sup.late) => ~WriteAbandoned(sup.peer)

\* the on-quit callback of p, removePeerFromNode, has run to its end
Removed(p) ==
    hist.onQuitting[p] > 0 /\ peer[p].quitPc \notin {"connectedAddrs", "notify"}

\* C19: a peer that has been removed has its quit flag true, is not in
\* n.peers, and its address is not in n.connectedAddrs unless a peer in
\* n.peers has that address.
RemovedPeerIsForgotten ==
    \A p \in PeerIds :
        Removed(p) =>
            /\ peer[p].HasQuit
            /\ p \notin node.peers
            /\ \/ peer[p].tcpAddress \notin node.connectedAddrs
               \/ \E q \in node.peers : peer[q].tcpAddress = peer[p].tcpAddress

GotVersion(a) ==
    /\ Len(env.conn[a].recv) >= 1
    /\ env.conn[a].recv[1].Command = "version"
    /\ env.conn[a].recv[1].Magic = MainnetMagicValue

HandshakeReturned == {"failed", "idle", "handshaken", "connected", "unconnected"}
HandshakeSucceeded == {"handshaken", "connected", "unconnected"}

\* C22: a handshake that has read a version message of protocol version
\* 70016 or more writes wtxidrelay next, unless reading or writing fails,
\* and does not succeed without having read a wtxidrelay message.
WtxidrelayExchanged ==
    \A a \in Addrs :
        (GotVersion(a) /\ env.conn[a].recv[1].Version >= WtxidRelayVersion)
            => /\ worker[a].pc \in HandshakeReturned
                    => \/ worker[a].err = "io"
                       \/ /\ Len(env.conn[a].sent) >= 2
                          /\ env.conn[a].sent[2] = "wtxidrelay"
               /\ worker[a].pc \in HandshakeSucceeded
                    => \E k \in 1..Len(env.conn[a].recv) :
                           env.conn[a].recv[k].Command = "wtxidrelay"

\* the remote end of TestPerformHandshake_ShouldExchangeWtxidRelayWithVersion70016
Script70016 ==
    <<[Command |-> "version", Magic |-> MainnetMagicValue, Version |-> WtxidRelayVersion],
      [Command |-> "wtxidrelay", Magic |-> MainnetMagicValue, Version |-> 0],
      [Command |-> "verack", Magic |-> MainnetMagicValue, Version |-> 0]>>

\* C23: with a remote that answers version 70016, wtxidrelay, verack and no
\* failing read or write, the handshake returns no error, and once the three
\* messages are read it has succeeded having written version, wtxidrelay,
\* verack in that order.
Handshake70016Completes ==
    \A a \in Addrs :
        (/\ env.conn[a].recv # <<>>
         /\ Len(env.conn[a].recv) <= Len(Script70016)
         /\ env.conn[a].recv = SubSeq(Script70016, 1, Len(env.conn[a].recv))
         /\ worker[a].err # "io")
            => /\ worker[a].err = "none"
               /\ env.conn[a].recv = Script70016
                    => /\ worker[a].pc \in HandshakeSucceeded
                       /\ env.conn[a].sent = <<"version", "wtxidrelay", "verack">>
                       /\ env.conn[a].state = "open"

\* C24: when the handshake has returned an error after the connection was
\* opened, the connection has been closed.
FailedHandshakeClosesConn ==
    \A a \in Addrs :
        (/\ worker[a].pc \in {"failed", "idle"}
         /\ worker[a].err # "none"
         /\ env.conn[a].state # "none")
            => env.conn[a].state = "closed"

\* C36: whatever the remote end does, PerformHandshake returns at some time,
\* with a connection or with an error.
HandshakeEventuallyReturns ==
    <>(\A a \in Addrs : worker[a].pc \in HandshakeReturned)

RECURSIVE NoncesOf(_, _)
\* the nonces of the messages of seq that have the command c, in order
NoncesOf(seq, c) ==
    IF seq = <<>> THEN <<>>
    ELSE (IF Head(seq).Command = c THEN <<Head(seq).Nonce>> ELSE <<>>)
             \o NoncesOf(Tail(seq), c)

\* what peer p has handed to its transport, has taken from writeCh, and has
\* in writeCh, oldest first
Outgoing(p) ==
    [i \in 1..Len(wire[p]) |-> wire[p][i].bytes]
        \o (IF writeLoop[p].pc = "write" THEN <<writeLoop[p].bytes>> ELSE <<>>)
        \o peer[p].writeCh

\* what peer p has decoded and not handled yet, oldest first
Incoming(p) ==
    (IF msgChLoop[p].msg # NoMsg THEN <<msgChLoop[p].msg>> ELSE <<>>)
        \o peer[p].msgCh
        \o (IF readLoop[p].pc = "send" THEN <<readLoop[p].msg>> ELSE <<>>)

\* C27: for a peer that has not quit, the nonces of the pings it has
\* received are, in order, the nonces of the pongs it has written or
\* queued for writing followed by the nonces of the pings it has not handled
\* yet (one pong of the same nonce for each ping handled), and whatever else
\* it writes is a request of the supervisor, never an answer to a ping.
OnePongPerPing ==
    \A p \in PeerIds :
        ~peer[p].HasQuit =>
            /\ NoncesOf(hist.received[p], "ping")
                  = NoncesOf(Outgoing(p), "pong") \o NoncesOf(Incoming(p), "ping")
            /\ \A i \in 1..Len(Outgoing(p)) :
                  Outgoing(p)[i].Command \in {"pong", "getaddr", "getdata", "getblocks"}

\* a live peer has received two pings of different nonces and has written
\* the pong of the first to its transport
PongWritten ==
    \E p \in PeerIds :
        /\ ~peer[p].HasQuit
        /\ NoncesOf(hist.received[p], "ping") = <<101, 100>>
        /\ \E i \in 1..Len(wire[p]) :
              wire[p][i] = [bytes |-> [Command |-> "pong", Nonce |-> 101], err |-> FALSE]

RECURSIVE InvsOf(_)
\* the inventory lists of the inv messages of seq, in order
InvsOf(seq) ==
    IF seq = <<>> THEN <<>>
    ELSE (IF Head(seq).Command = "inv" THEN <<Head(seq).InventoryList>> ELSE <<>>)
             \o InvsOf(Tail(seq))

RECURSIVE BlocksOf(_)
\* the blocks of the block messages of seq, in order
BlocksOf(seq) ==
    IF seq = <<>> THEN <<>>
    ELSE (IF Head(seq).Command = "block" THEN <<Head(seq).Block>> ELSE <<>>)
             \o BlocksOf(Tail(seq))

RECURSIVE InvEventsOf(_, _)
\* the payloads of the inv events of seq whose sender is p, in order
InvEventsOf(seq, p) ==
    IF seq = <<>> THEN <<>>
    ELSE (IF Head(seq).Sender = p THEN <<Head(seq).InvPayload>> ELSE <<>>)
             \o InvEventsOf(Tail(seq), p)

RECURSIVE BlockEventsOf(_, _)
\* the payloads of the block events of seq whose sender is p, in order
BlockEventsOf(seq, p) ==
    IF seq = <<>> THEN <<>>
    ELSE (IF Head(seq).Sender = p THEN <<Head(seq).BlockPayload>> ELSE <<>>)
             \o BlockEventsOf(Tail(seq), p)

RECURSIVE WantedHashes(_, _)
\* the hashes of the entries of list of type block or witness-block that
\* are not in known, in order
WantedHashes(list, known) ==
    IF list = <<>> THEN <<>>
    ELSE (IF /\ Head(list).Type \in {MsgBlock, MsgWitnessBlock}
             /\ Head(list).Hash \notin known
          THEN <<Head(list).Hash>> ELSE <<>>)
             \o WantedHashes(Tail(list), known)

\* C29: the step that takes an inv event leaves the block set and every
\* write channel as they are, and leaves the supervisor either with nothing
\* to send, when no entry of type block or witness-block has a hash outside
\* the block hash index, or with one getdata for exactly those hashes, each
\* of inventory type block, addressed to the sender of the event; and the
\* step that ends a write of the supervisor puts that one message into the
\* write channel of that one peer.
InvAnsweredByGetData ==
    [][/\ hist'.invs # hist.invs
           => LET i == Head(node.invMsgCh)
                  wanted == WantedHashes(i.InvPayload, node.blockHashes)
              IN /\ node'.blocks = node.blocks
                 /\ node'.blockHashes = node.blockHashes
                 /\ peer' = peer
                 /\ IF wanted = <<>>
                    THEN sup'.pc = "select" /\ sup'.msg = NoMsg
                    ELSE /\ sup'.pc = "write"
                         /\ sup'.peer = i.Sender
                         /\ sup'.msg =
                               [Command |-> "getdata",
                                Inventory |-> [k \in 1..Len(wanted) |->
                                                 [Type |-> MsgBlock, Hash |-> wanted[k]]]]
       /\ (sup.pc = "write" /\ sup'.pc # "write")
           => peer' = [peer EXCEPT ![sup.peer].writeCh = Append(@, sup.msg)]]_vars

\* the supervisor has taken two inv events of one peer, the first with an
\* entry of type transaction and one of type witness-block, the second with
\* the hash of a block that is not stored, and the peer has written the
\* getdata of the first to its transport and holds the getdata of the second
GetDataWritten ==
    \E p \in PeerIds :
        /\ InvEventsOf(hist.invs, p)
              = <<<<[Type |-> MsgTx, Hash |-> GetBlockHash(BlockB)],
                    [Type |-> MsgWitnessBlock, Hash |-> GetBlockHash(BlockB)]>>,
                  <<[Type |-> MsgBlock, Hash |-> GetBlockHash(BlockA)]>>>>
        /\ NoncesOf(Outgoing(p), "pong") = <<>>
        /\ Len(Outgoing(p)) = 2
        /\ Outgoing(p)[1] = GetDataMsg(<<GetBlockHash(BlockB)>>)
        /\ Outgoing(p)[2] = GetDataMsg(<<GetBlockHash(BlockA)>>)
        /\ Len(wire[p]) >= 1 /\ ~wire[p][1].err

RECURSIVE MissingParents(_, _)
\* the previous-block hashes of the blocks of `blocks` that are neither the
\* zero hash nor in known, in order
MissingParents(blocks, known) ==
    IF blocks = <<>> THEN <<>>
    ELSE (IF Head(blocks).PrevBlock # ZeroHash /\ Head(blocks).PrevBlock \notin known
          THEN <<Head(blocks).PrevBlock>> ELSE <<>>)
             \o MissingParents(Tail(blocks), known)

\* C30: the step of a tick leaves the supervisor back at its select with
\* nothing to send when the live-peer map is empty, and otherwise with one
\* message for one peer of the live-peer map: a getdata for the missing
\* parent hashes when a stored block has a missing parent, a getblocks when
\* none has.
TickSendsOneRequest ==
    [][hist'.ticks # hist.ticks
          => LET missing == MissingParents(node.blocks, node.blockHashes)
             IN IF node.peers = {}
                THEN sup' = SupAt("select")
                ELSE /\ sup'.pc = "write"
                     /\ sup'.peer \in node.peers
                     /\ IF missing # <<>>
                        THEN sup'.msg = GetDataMsg(missing)
                        ELSE sup'.msg.Command = "getblocks"]_vars

\* the hashes of the blocks of `blocks` whose timestamp no other block exceeds
TipHashes(blocks) ==
    {GetBlockHash(blocks[i]) :
        i \in {j \in 1..Len(blocks) :
                 \A k \in 1..Len(blocks) : blocks[k].Timestamp <= blocks[j].Timestamp}}

\* C31: a getblocks the supervisor is about to write has one locator hash
\* and the zero hash as hash-stop, and the step of a tick that finds no
\* missing parent and a peer in the live-peer map issues a getblocks whose
\* locator hash is the genesis block hash when the block set is empty and
\* the hash of a stored block of maximum timestamp when it is not.
GetBlocksFromTip ==
    [][/\ (sup'.pc = "write" /\ sup'.msg.Command = "getblocks")
           => /\ Len(sup'.msg.BlockLocatorHashes) = 1
              /\ sup'.msg.HashStop = ZeroHash
       /\ (/\ hist'.ticks # hist.ticks
           /\ MissingParents(node.blocks, node.blockHashes) = <<>>
           /\ node.peers # {})
           => /\ sup'.pc = "write"
              /\ sup'.msg.Command = "getblocks"
              /\ Len(sup'.msg.BlockLocatorHashes) = 1
              /\ IF node.blocks = <<>>
                 THEN sup'.msg.BlockLocatorHashes[1] = GenesisBlockHash
                 ELSE sup'.msg.BlockLocatorHashes[1] \in TipHashes(node.blocks)]_vars

\* C32: the step that takes a block event, with the block set as that step
\* leaves it, puts nothing into a write channel and leaves the supervisor
\* with nothing to send when no stored block has a previous-block hash that
\* is neither the zero hash nor in the block hash index, and otherwise with
\* one getdata, addressed to the sender of the event, whose entries are of
\* inventory type block and carry exactly those previous-block hashes.
BlockAnsweredByGetData ==
    [][hist'.blocks # hist.blocks
          => LET msg == Head(node.blockMsgCh)
                 missing == MissingParents(node'.blocks, node'.blockHashes)
             IN /\ peer' = peer
                /\ IF missing = <<>>
                   THEN sup'.pc = "select" /\ sup'.msg = NoMsg
                   ELSE /\ sup'.pc = "write"
                        /\ sup'.peer = msg.Sender
                        /\ sup'.msg.Command = "getdata"
                        /\ {sup'.msg.Inventory[k] : k \in 1..Len(sup'.msg.Inventory)}
                             = {[Type |-> MsgBlock, Hash |-> missing[k]] :
                                   k \in 1..Len(missing)}]_vars

\* the supervisor has taken the block events of a block without parent and
\* then of a block whose parent is unknown, both of one peer, has asked
\* nothing after the first, and that peer has written the getdata for the
\* unknown parent to its transport
MissingParentRequested ==
    \E p \in PeerIds :
        /\ BlockEventsOf(hist.blocks, p) = <<BlockA, BlockC>>
        /\ Outgoing(p) = <<GetDataMsg(<<BlockC.PrevBlock>>)>>
        /\ Len(wire[p]) = 1 /\ ~wire[p][1].err

(***************************************************************************)
(* Properties of the address reply                                         *)
(***************************************************************************)
\* the supervisor waits on the channel that is in the slot of peer p
WaiterOn(p, s, slot) == s.pc = "waitAddr" /\ s.peer = p /\ s.ch = slot

\* C33: the dispatcher of a peer drops an addr message when the slot of the
\* address request is empty, and when the slot is set and the payload is the
\* one address of the remote end itself (the slot stays as it is); in every
\* other case it hands the address list to the supervisor that waits on the
\* channel of the slot, once, and clears the slot: from the step that takes
\* up the delivery to the step that makes it the waiter is waiting on that
\* channel.
AddrDeliveredOrDropped ==
    [][\A p \in PeerIds :
          /\ (msgChLoop[p].pc = "addr" /\ msgChLoop'[p].pc # "addr")
                => IF \/ peer[p].getAddrMsgResponseCh = NoChan
                      \/ /\ Len(msgChLoop[p].msg.AddressList) = 1
                         /\ msgChLoop[p].msg.AddressList[1] = peer[p].tcpAddress
                   THEN /\ msgChLoop'[p].pc = "select"
                        /\ peer' = peer
                        /\ sup' = sup
                   ELSE msgChLoop'[p].pc = "addrSend"
          /\ (msgChLoop[p].pc = "addrSend" /\ msgChLoop'[p].pc # "addrSend")
                => /\ WaiterOn(p, sup, peer[p].getAddrMsgResponseCh)
                   /\ sup'.pc = "addAddrs"
                   /\ sup'.addrs = msgChLoop[p].msg.AddressList
                   /\ peer'[p].getAddrMsgResponseCh = NoChan
                   /\ msgChLoop'[p].pc = "select"
          /\ msgChLoop'[p].pc = "addrSend"
                => WaiterOn(p, sup', peer'[p].getAddrMsgResponseCh)]_vars

(***************************************************************************)
(* Properties of the reader                                                *)
(***************************************************************************)
RECURSIVE KnownMsgsOf(_)
\* the messages of the frames of a known command, in order
KnownMsgsOf(frames) ==
    IF frames = <<>> THEN <<>>
    ELSE (IF Head(frames).class = "known" THEN <<Head(frames).msg>> ELSE <<>>)
             \o KnownMsgsOf(Tail(frames))

\* C34: after the reader of a peer has called the codec env.done times on a
\* connection: while no frame it came to was other than a well-framed message
\* of a known or of an unknown command, the peer is not terminated by its
\* reader, the octets left on the connection are those of the frames that
\* follow (an unknown message is taken whole, header and payload) and the
\* messages received are those of the frames of a known command; a frame
\* whose decoding fails with another error is the last one the reader comes
\* to, and the reader then terminates the peer.
UnknownCommandSkipped ==
    LET fs == env.frames
        k == env.done
        reader == readLoop[1].pc
    IN /\ k <= Len(fs)
       /\ \A i \in 1..(k - 1) : fs[i].class \in {"known", "unknown"}
       /\ (k >= 1 /\ fs[k].class \in {"bad", "cut"}) => reader \in {"quit", "done"}
       /\ (\A i \in 1..k : fs[i].class \in {"known", "unknown"})
             => /\ env.stream = OctetsOf(SubSeq(fs, k + 1, Len(fs)))
                /\ hist.received[1] = KnownMsgsOf(SubSeq(fs, 1, k))
                /\ reader \in {"quit", "done"} => env.stream = <<>>
       /\ reader = "done" <=> peer[1].HasQuit

\* the reader has come past an unknown message with a payload and has
\* decoded the ping that follows it, and the peer has not been terminated
PingAfterUnknownRead ==
    /\ env.done = 2
    /\ env.frames[1].class = "unknown"
    /\ Len(env.frames[1].octets) > headerLength
    /\ hist.received[1] = <<[Command |-> "ping", Nonce |-> 100]>>
    /\ readLoop[1].pc \in {"read", "send"}
    /\ ~peer[1].HasQuit

(***************************************************************************)
(* Properties of the ensure-minimum-peers notification                     *)
(***************************************************************************)
\* C35: the step of a peer removal that tests the number of live peers, and
\* the step that ends an attempt of addPeersIfNecessary, leave a
\* notification in addPeersCh when they find fewer live peers than
\* minimumPeers on a node that has not quit; addPeersCh never holds more
\* than one notification; and a notification that is pending on a node that
\* has not quit is taken up again: the supervisor is not in a write that
\* waits for ever.
NotificationRunsAgain ==
    [][/\ \A p \in PeerIds :
            (/\ peer[p].quitPc = "notify"
             /\ peer'[p].quitPc # "notify"
             /\ Cardinality(node.peers) < minimumPeers
             /\ ~node.HasQuit)
                => node'.addPeersCh = 1
       /\ (/\ sup.pc = "wgWait"
           /\ sup'.pc # "wgWait"
           /\ Cardinality(node.peers) < minimumPeers
           /\ ~node.HasQuit)
              => node'.addPeersCh = 1
       /\ node'.addPeersCh \in {0, 1}
       /\ (node'.addPeersCh = 1 /\ ~node'.HasQuit)
              => ~(sup'.pc = "write" /\ (WriteAbandoned(sup.peer))')]_vars

(***************************************************************************)
(* Properties of what the supervisor and the goroutines of a peer wait for *)
(***************************************************************************)
\* C37: the supervisor is never in a request to a peer that cannot return:
\* not in the write of a getdata or getblocks, nor in the write of a getaddr,
\* to a peer whose writer has returned and whose write channel is full, and
\* not waiting for the lock of a peer whose dispatcher holds it in a
\* delivery of an address reply that nobody receives.
SupervisorRequestsReturn ==
    /\ sup.pc \in {"write", "getAddrWrite"} => ~WriteAbandoned(sup.peer)
    /\ sup.pc = "getAddr" => ~AddrSendAbandoned(sup.peer)

\* C38: once the quit channel of a peer is closed, none of its goroutines is
\* in a wait that cannot end: the reader is not in a send on p.msgCh that is
\* full with the dispatcher gone, and the dispatcher is not in a delivery of
\* an address reply that nobody receives, nor in the write of a pong with
\* the writer gone and p.writeCh full, nor in a send on the full inv channel
\* of a supervisor that has returned.
PeerGoroutinesStop ==
    \A p \in PeerIds :
        peer[p].QuitCh =>
            /\ ~(/\ readLoop[p].pc = "send"
                 /\ msgChLoop[p].pc = "done"
                 /\ Len(peer[p].msgCh) = ChanCap)
            /\ ~AddrSendAbandoned(p)
            /\ ~(msgChLoop[p].pc = "ping" /\ WriteAbandoned(p))
            /\ ~(/\ msgChLoop[p].pc = "inv"
                 /\ sup.pc = "done"
                 /\ Len(node.invMsgCh) = minimumPeers)

(***************************************************************************)
(* Properties of the codec                                                 *)
(***************************************************************************)
\* C26: decoding the encoding of a block payload gives that block payload.
BlockRoundTrip ==
    env.step = "decoded" => (~env.decoded.err /\ env.decoded.val = env.block)

(***************************************************************************)
(* Properties of a start of which the restore fails                        *)
(***************************************************************************)
\* the file the process started with does not decode: readBlocksFromDisk
\* returns an error that is not os.ErrNotExist
RestoreFails == readBlocksFromDisk(node, hist.startFile).err = "decode"

\* C39: when the restore of the snapshot fails at the start with a decode
\* error, the supervisor never enters its event loop, it calls Node.Quit and
\* returns, the node holds no block, and the file at the target path stays
\* the file the process started with: the dump of Node.Quit neither replaces
\* nor truncates it.
FailedRestoreKeepsSnapshot ==
    RestoreFails =>
        /\ sup.pc \in {"start", "nodeQuit", "done"}
        /\ sup.pc = "done" => node.HasQuit
        /\ node.blocks = <<>>
        /\ ~hist.renamed
        /\ env.file = hist.startFile

\* the restore of a cut file failed, Node.Quit of the supervisor ran its
\* dump and returned, and the cut file is still at the target path
QuitAfterFailedRestore ==
    /\ RestoreFails
    /\ hist.startFile = FileOf(CutSnapshot(<<BlockA>>))
    /\ sup.pc = "done"
    /\ hist.dumps >= 1
    /\ env.file = hist.startFile

(***************************************************************************)
(* Properties of the stream position after one decoded item                *)
(***************************************************************************)
\* the offset in the encoding of a block at which its k-th transaction starts
TxStart(txs, k) ==
    80 + Len(VarIntEncode(Len(txs)))
       + Len(Concat([j \in 1..(k - 1) |-> EncodeTx(txs[j])]))

\* the stream is left right behind the octets of the transaction that
\* decodeTxPayload decoded from the position at which it starts
TxConsumesItsOctets(s, txs, k) ==
    ~DecodeTx(s, TxStart(txs, k)).err
        => DecodeTx(s, TxStart(txs, k)).pos = TxStart(txs, k) + Len(EncodeTx(txs[k]))

\* the stream of a snapshot file is left right behind the octets of its
\* first block when decodeBlockPayload decoded that block
BlockConsumesItsOctets(b, next) ==
    ~DecodeBlock(Snapshot(<<b, next>>), 1).err
        => DecodeBlock(Snapshot(<<b, next>>), 1).pos = 1 + Len(EncodeBlock(b))

\* C40: decoding one transaction of a block, or one block of a snapshot
\* file, takes exactly the octets of that item from the stream: the stream
\* is then at the first octet of the next item.  The block is one that
\* decodes when it is alone in its stream, followed in the file by BlockA.
ItemConsumesItsOctets ==
    env.step = "decoded" =>
        /\ \A k \in 1..Len(env.block.Transactions) :
               TxConsumesItsOctets(env.octets, env.block.Transactions, k)
        /\ (~env.decoded.err /\ env.decoded.val = env.block)
               => BlockConsumesItsOctets(env.block, BlockA)

====
